---------------------------- MODULE Spec2Model ----------------------------
(***************************************************************************)
(* Burstfire authoritative server core: the cross-thread input ring, the   *)
(* fixed-tick simulation step and the published snapshot.                   *)
(*                                                                         *)
(* Sources: src/server/addon/game_server.cc, src/unnamed/part_002          *)
(* (game_server.h), src/server/addon/addon.cc.                             *)
(*                                                                         *)
(* Atomic loads and stores of head_ / tail_ are single steps of the model  *)
(* (the release/acquire pairs of the code order the buffer accesses around *)
(* them); the plain accesses to buffer_ take two steps, so that            *)
(* overlapping plain accesses (a data race) are visible and yield an       *)
(* arbitrary outcome.                                                      *)
(***************************************************************************)
EXTENDS Integers, Sequences, FiniteSets, TLC

\* ------------------------------------------------------------------ bounds
\* size of the ring in the model (the program's kSize is 4096)
kSize == 3
\* commands a producer context may submit in a run of the ring specifications
MaxCmds == 4
\* last tick a run of the free specification executes
MaxTick == 2
\* commands the transport submits in a run of the free specification
MaxPushes == 3
\* getSnapshot calls in a run of the free specification
MaxReads == 1
\* runs a caller's start() calls are counted up to
MaxRuns == 2
\* human session ids handed out by the transport (1, 2, ...)
MaxHumans == 2
\* largest command sequence number submitted
MaxSeq == 2
\* largest abstract yaw value submitted
MaxYaw == 1
\* largest maxPlayers passed to startServer
MaxPlayersCfg == 2
\* saturation of the per-tick call counters
CountCap == 4

\* ------------------------------------------------------- program constants
RespawnTicks == 180
IdleTimeoutTicks == 600
BotIdBase == 1000000
FullHealth == 100

VARIABLES
    \* InputRing
    buffer_,      \* std::array<InputPacket, kSize>
    head_,        \* std::atomic<size_t>, written by push
    tail_,        \* std::atomic<size_t>, written by pop
    \* producer contexts inside InputRing::push
    producers,    \* the contexts that call push
    ppc,          \* position of each producer inside push
    phead,        \* push's local `head`
    ppkt,         \* push's argument `packet`
    praced,       \* the plain write of this push overlapped another access
    pres,         \* result of the last push of each producer
    \* the consumer inside InputRing::pop
    cpc,          \* position inside pop
    ctail,        \* pop's local `tail`
    cpkt,         \* pop's out-parameter `packet`
    craced,       \* the plain read of this pop overlapped a write
    cres,         \* result of the last pop
    \* history
    nextCmd,      \* commands submitted so far
    accepted,     \* commands for which push returned true, in order of return
    popped,       \* commands returned by pop, in order
    \* GameServer
    running_,     \* std::atomic<bool>
    tickCount_,   \* std::atomic<uint32_t>
    config_,      \* GameConfig
    players_,     \* std::vector<PlayerState>
    spiders_,     \* std::vector<SpiderEntity>
    snapshot_,    \* the published buffer: <<>> or <<header, record, ...>>
    snapshotMutex_, \* who holds the mutex: "none", "tick" or "reader"
    \* the tick thread (tickLoop / stepSimulation)
    spc,          \* "none", "loop", "drain", "publish", "exited"
    touched,      \* stepSimulation's local `touched` (ids, membership only)
    data,         \* buildSnapshot's local `data`, built and not yet swapped
    \* a transport context inside getSnapshot
    rpc,          \* "idle", "locked", "copying", "copied"
    rout,         \* the caller's outSnapshot
    \* environment and instrumentation
    horizon,      \* the tick at which the examined run ends
    pushes,       \* pushInput calls made
    reads,        \* getSnapshot calls made
    tickLog,      \* per entity id: what this tick did for it so far
    \* the addon boundary (PushInput)
    payload,      \* the buffer argument of the last call: the bytes of its
                  \* ArrayBuffer from the view's offset on, and the view's length
    pushed,       \* the Boolean the last call returned
    \* a client receiving a snapshot message
    wire,         \* the bytes of the message
    parsed,       \* what parseSnapshot returned for them
    \* one entity's movement, server routine and client routine side by side
    kstate,       \* the entity's kinematic state on the server
    kcmd,         \* the command last integrated
    snext,        \* integratePlayer's result for kstate and kcmd
    cnext,        \* Predictor.applyCommand's result for the same two
    ksteps,       \* commands integrated so far
    \* one client session: Predictor, the connection, its entity on the server
    predSeq,      \* Predictor.seq
    pending,      \* Predictor.pending
    localState,   \* Predictor.localState: <<>> for null, else <<state>>
    lastHealth,   \* Predictor.lastHealth
    inflight,     \* input messages sent and not yet processed by the server
    snapMsg,      \* a snapshot on its way to the client: <<>> or <<players>>
    srvEntity,    \* the session's entity in the server's store: <<>> or <<p>>
    ack,          \* lastSeq of the own record in the last snapshot applied
    dropped,      \* commands the last applySnapshot removed from pending
    sentLog,      \* the commands sampled and sent, as the client holds them
    recvLog,      \* the commands processed by the server, as it parsed them
    \* the context that calls start, stop, pushInput and getSnapshot
    stopc,        \* position inside stop(): "idle" or "joining"
    seenTick,     \* tick of the last snapshot a getSnapshot call of this run
                  \* returned, 0 before the first
    lastShot,     \* per entity id: tick of its last accepted shot in this
                  \* run, -1 when there is none
    runs          \* start() calls that have started a run, counted up to
                  \* MaxRuns

ringVars == <<buffer_, head_, tail_>>
prodVars == <<producers, ppc, phead, ppkt, praced, pres>>
consVars == <<cpc, ctail, cpkt, craced, cres>>
histVars == <<nextCmd, accepted, popped>>
boundaryVars == <<payload, pushed>>
wireVars == <<wire, parsed>>
stepVars == <<kstate, kcmd, snext, cnext, ksteps>>
predictVars == <<predSeq, pending, localState, lastHealth, inflight, snapMsg,
                 srvEntity, ack, dropped, sentLog, recvLog>>
lifeVars == <<stopc, seenTick, lastShot, runs>>
extVars == <<boundaryVars, wireVars, stepVars, predictVars, lifeVars>>
gameVars == <<running_, tickCount_, config_, players_, spiders_, snapshot_,
              snapshotMutex_, spc, touched, data, rpc, rout, horizon, pushes,
              reads, tickLog, extVars>>
vars == <<ringVars, prodVars, consVars, histVars, gameVars>>

\* ------------------------------------------------------------ InputPacket
Packet(id, seq, moveX, moveZ, yaw, pitch, fire, weapon, jump) ==
    [playerId |-> id, seq |-> seq, moveX |-> moveX, moveZ |-> moveZ,
     yaw |-> yaw, pitch |-> pitch, fire |-> fire, weapon |-> weapon,
     jump |-> jump]

\* a value-initialised InputPacket (the ring lives in a zero-initialised global)
ZeroPacket == Packet(0, 0, 0, 0, 0, 0, FALSE, 0, FALSE)

\* what a racing plain access may leave behind: bytes of no submitted packet
TornPacket == [ZeroPacket EXCEPT !.playerId = -1, !.seq = -1]

\* -------------------------------------------------------------- InputRing
Slots == 0 .. (kSize - 1)

\* (i + 1) % kSize
RingNextMut(i) == (i + 2) % kSize
RingNext(i) == (i + 1) % kSize

\* push: `next == tail_.load()` -- the ring is full
IsFullMut(next, tail) == FALSE
IsFull(next, tail) == next = tail

\* pop: `tail == head_.load()` -- the ring is empty
IsEmptyMut(tail, head) == FALSE
IsEmpty(tail, head) == tail = head

RECURSIVE SlotsFrom(_, _)
\* the slot indices from tail up to (not including) head, in ring order
SlotsFrom(tail, head) ==
    IF tail = head THEN <<>>
    ELSE <<tail>> \o SlotsFrom((tail + 1) % kSize, head)

\* the commands the ring holds, oldest first
RingContents == [i \in 1 .. Len(SlotsFrom(tail_, head_)) |->
                    buffer_[SlotsFrom(tail_, head_)[i]]]

\* ------------------------------------------------------------- GameServer
\* kShotgun: the one weapon (damage per shot split over `pellets` rays)
kShotgun == [id |-> 0, maxDamage |-> 84, minDamage |-> 12, cooldownTicks |-> 16,
             range |-> 22, pellets |-> 8]

HumanIds == 1 .. MaxHumans
Seqs == 1 .. MaxSeq
Yaws == 0 .. MaxYaw

\* the entity ids a run can hold: transport-assigned ids and reserved bot ids
BotIds(cfg) == {BotIdBase + i : i \in 0 .. (cfg.botCount - 1)}
EntityIds == HumanIds \cup {BotIdBase}

\* static_cast<int32_t>(std::round(totalDamage)) of one accepted shot against
\* one target: 0 when no pellet hits it, otherwise between the rounded damage
\* of one pellet at maximum range and the full damage of all pellets
RoundHalfUp(num, den) == (2 * num + den) \div (2 * den)
DamageOutcomes == {0, RoundHalfUp(kShotgun.minDamage, kShotgun.pellets),
                   kShotgun.maxDamage}

\* PlayerState. The kinematic fields (x, y, z, vx, vy, vz, grounded) are
\* carried by the integration routine only and are not part of this record.
PlayerZero ==
    [id |-> 0, yaw |-> 0, pitch |-> 0, health |-> 0, lastSeq |-> 0,
     active |-> FALSE, respawnTick |-> 0, lastFireTick |-> 0,
     lastInputTick |-> 0, weapon |-> 0, isBot |-> FALSE]

\* what the current tick has done for one entity id
\*   cmds       commands processed for it (processInput calls)
\*   integ      integratePlayer calls made for it
\*   idle       of those, calls with the synthetic command
\*   lastSeq    sequence number of the last command processed for it
\*   idleInput  the synthetic command used
\*   fired      a shot of it was accepted
\*   shots      shots of it accepted
\*   inStore, wasActive   its state when the tick began
LogZero == [cmds |-> 0, integ |-> 0, idle |-> 0, lastSeq |-> 0,
            idleInput |-> ZeroPacket, fired |-> FALSE, shots |-> 0,
            inStore |-> FALSE,
            wasActive |-> FALSE]
TickLogZero == [id \in EntityIds |-> LogZero]
TickLogStart(ps) ==
    [id \in EntityIds |->
        [LogZero EXCEPT
            !.inStore = \E i \in 1 .. Len(ps) : ps[i].id = id,
            !.wasActive = \E i \in 1 .. Len(ps) : ps[i].id = id /\ ps[i].active]]

Sat(n) == IF n < CountCap THEN n + 1 ELSE n

\* the simulation's working state inside one stepSimulation call
World(ps, tch, lg) == [players |-> ps, touched |-> tch, log |-> lg]

\* findPlayer: index of the entity with this id, 0 when there is none
FindPlayer(ps, id) ==
    IF \E i \in 1 .. Len(ps) : ps[i].id = id
    THEN CHOOSE i \in 1 .. Len(ps) :
            ps[i].id = id /\ \A j \in 1 .. (i - 1) : ps[j].id # id
    ELSE 0

\* respawnPlayer (placement of x, z is part of the kinematics)
RespawnPlayer(p, tick) ==
    [p EXCEPT !.health = FullHealth, !.active = TRUE, !.lastFireTick = 0,
              !.lastInputTick = tick, !.weapon = 0]

\* integratePlayer: advances the entity by one timestep under `input` and
\* stores the command's orientation; the log counts the call
IntegratePlayer(p, input) == [p EXCEPT !.yaw = input.yaw, !.pitch = input.pitch]

LogIntegrate(lg, id) == [lg EXCEPT ![id].integ = Sat(@)]

\* a - b on uint32_t tick values; every subtraction of the code has b <= a
\* (b is an earlier reading of the tick counter), so no wrap-around is modelled
U32Sub(a, b) == a - b

\* tickCount_.load() >= p.respawnTick: the respawn of an inactive entity is due
RespawnDueMut(tick, respawnTick) == tick > respawnTick
RespawnDue(tick, respawnTick) == tick >= respawnTick

\* target.health -= damage; target.health = std::max(0, target.health)
ApplyDamage(health, dmg) == IF health - dmg < 0 THEN 0 ELSE health - dmg

\* the respawn tick scheduled for an entity killed at `tick`
RespawnAtMut(tick) == RespawnTicks
RespawnAt(tick) == tick + RespawnTicks

\* one target of an accepted shot (processInput, lines 210-237)
HitTarget(t, shooterId, dmg, tick) ==
    IF ~t.active \/ t.id = shooterId \/ t.health <= 0 THEN t
    ELSE IF dmg > 0
         THEN LET h == ApplyDamage(t.health, dmg)
              IN IF h <= 0
                 THEN [t EXCEPT !.health = h, !.active = FALSE,
                                !.respawnTick = RespawnAt(tick)]
                 ELSE [t EXCEPT !.health = h]
         ELSE t

\* packet.fire && currentTick - player->lastFireTick >= cooldown (uint32)
FireAcceptedMut(fire, tick, lastFireTick) == fire
FireAccepted(fire, tick, lastFireTick) ==
    fire /\ U32Sub(tick, lastFireTick) >= kShotgun.cooldownTicks

\* players_.size() >= config_.maxPlayers
StoreFullMut(ps, cfg) == FALSE
StoreFull(ps, cfg) == Len(ps) >= cfg.maxPlayers

\* processInput; dmg[j] is the rounded damage the shot deals to players_[j]
DeadInputMut(p, pkt, tick) ==
    [p EXCEPT !.lastSeq = pkt.seq, !.lastInputTick = tick, !.yaw = pkt.yaw,
              !.pitch = pkt.pitch,
              !.lastFireTick = IF pkt.fire THEN tick ELSE @]

\* processInput on an entity that is still inactive after the respawn test:
\* the command's sequence number and the tick are stored, nothing else
DeadInput(p, pkt, tick) ==
    [p EXCEPT !.lastSeq = pkt.seq, !.lastInputTick = tick]

ProcessInput(w, pkt, tick, cfg, dmg) ==
    LET idx0 == FindPlayer(w.players, pkt.playerId)
    IN IF idx0 = 0 /\ StoreFull(w.players, cfg) THEN w
       ELSE
       LET newP == [PlayerZero EXCEPT !.id = pkt.playerId, !.health = FullHealth,
                       !.yaw = pkt.yaw, !.pitch = pkt.pitch, !.active = TRUE,
                       !.lastSeq = pkt.seq, !.lastInputTick = tick]
           ps1 == IF idx0 = 0
                  THEN Append(w.players, RespawnPlayer(newP, tick))
                  ELSE w.players
           idx == IF idx0 = 0 THEN Len(ps1) ELSE idx0
           p1 == ps1[idx]
           p2 == IF ~p1.active /\ RespawnDue(tick, p1.respawnTick)
                 THEN RespawnPlayer(p1, tick) ELSE p1
       IN IF ~p2.active
          THEN World([ps1 EXCEPT ![idx] = DeadInput(p2, pkt, tick)],
                     w.touched, w.log)
          ELSE
          LET p3 == [IntegratePlayer([p2 EXCEPT !.weapon = 0], pkt)
                       EXCEPT !.lastSeq = pkt.seq, !.lastInputTick = tick]
              fires == FireAccepted(pkt.fire, tick, p3.lastFireTick)
              p4 == IF fires THEN [p3 EXCEPT !.lastFireTick = tick] ELSE p3
              ps2 == [ps1 EXCEPT ![idx] = p4]
              ps3 == IF fires
                     THEN [j \in 1 .. Len(ps2) |->
                             HitTarget(ps2[j], p4.id, dmg[j], tick)]
                     ELSE ps2
              lg1 == LogIntegrate(w.log, p4.id)
              lg2 == IF fires
                     THEN [lg1 EXCEPT ![p4.id].fired = TRUE,
                                      ![p4.id].shots = Sat(@)]
                     ELSE lg1
          IN World(ps3, w.touched \cup {p4.id}, lg2)

\* the command counts as processed for its entity in this tick
LogCommand(lg, pkt) ==
    IF pkt.playerId \in EntityIds
    THEN [lg EXCEPT ![pkt.playerId].cmds = Sat(@), ![pkt.playerId].lastSeq = pkt.seq]
    ELSE lg

\* ensureBot
EnsureBot(ps, botId, tick, cfg) ==
    IF cfg.botCount = 0 \/ FindPlayer(ps, botId) # 0
       \/ StoreFull(ps, cfg)
    THEN ps
    ELSE Append(ps, RespawnPlayer(
            [PlayerZero EXCEPT !.id = botId, !.health = FullHealth,
                !.active = TRUE, !.lastInputTick = tick, !.isBot = TRUE], tick))

\* the damage functions a shot can realise over a store of n entities
DamageChoices(n) == [1 .. n -> DamageOutcomes]
NoDamage(n) == [j \in 1 .. n |-> 0]

\* updateBots, line 445: the entities a bot considers as its target
IsBotTargetMut(p) == ~p.isBot
IsBotTarget(p) == ~p.isBot /\ p.active /\ p.health > 0

RECURSIVE UpdateBotsFrom(_, _, _, _, _)
\* updateBots, bots i .. botCount-1; botIn[i] holds what the geometry decides
\* for bot i: whether its target is in firing range, the yaw towards it, and
\* the damage its shot deals
UpdateBotsFrom(w, i, tick, cfg, botIn) ==
    IF i >= cfg.botCount THEN w
    ELSE
    LET botId == BotIdBase + i
        ps1 == EnsureBot(w.players, botId, tick, cfg)
        b == FindPlayer(ps1, botId)
    IN IF b = 0 THEN UpdateBotsFrom(w, i + 1, tick, cfg, botIn)
       ELSE IF ~ps1[b].active /\ ~RespawnDue(tick, ps1[b].respawnTick)
       THEN UpdateBotsFrom(World(ps1, w.touched, w.log), i + 1, tick, cfg, botIn)
       ELSE
       LET ps2 == IF ~ps1[b].active
                  THEN [ps1 EXCEPT ![b] = RespawnPlayer(ps1[b], tick)] ELSE ps1
           hasTarget == \E j \in 1 .. Len(ps2) : IsBotTarget(ps2[j])
           ai == IF hasTarget
                 THEN Packet(botId, tick, 1, 1, botIn[i].yaw, 0, botIn[i].fire,
                             0, FALSE)
                 ELSE Packet(botId, tick, 0, 0, ps2[b].yaw, ps2[b].pitch, FALSE,
                             0, FALSE)
           w1 == ProcessInput(World(ps2, w.touched, LogCommand(w.log, ai)),
                              ai, tick, cfg, botIn[i].dmg)
       IN UpdateBotsFrom(w1, i + 1, tick, cfg, botIn)

UpdateBots(w, tick, cfg, botIn) == UpdateBotsFrom(w, 0, tick, cfg, botIn)

BotInputs(cfg) ==
    [0 .. (cfg.botCount - 1) ->
        [yaw : Yaws, fire : BOOLEAN,
         dmg : DamageChoices(cfg.maxPlayers)]]

\* the synthetic command of the per-entity pass (stepSimulation, lines 149-152)
IdleInput(p) ==
    [ZeroPacket EXCEPT !.yaw = p.yaw, !.pitch = p.pitch, !.weapon = p.weapon]

\* std::find(touched.begin(), touched.end(), p.id) == touched.end()
NotTouchedMut(tch, id) == TRUE
NotTouched(tch, id) == id \notin tch

\* one entity of the per-entity pass (stepSimulation, lines 140-161)
PassOne(p, tch, tick) ==
    IF ~p.active
    THEN IF RespawnDue(tick, p.respawnTick) THEN RespawnPlayer(p, tick) ELSE p
    ELSE LET q == IF NotTouched(tch, p.id)
                  THEN IntegratePlayer(p, IdleInput(p)) ELSE p
         IN IF ~q.isBot
               /\ U32Sub(tick, q.lastInputTick) > IdleTimeoutTicks
            THEN [q EXCEPT !.active = FALSE] ELSE q

\* the per-entity pass (stepSimulation, lines 140-161)
PassAllMut(ps, tch, tick) ==
    SelectSeq([i \in 1 .. Len(ps) |-> PassOne(ps[i], tch, tick)],
              LAMBDA p : p.active)
PassAll(ps, tch, tick) == [i \in 1 .. Len(ps) |-> PassOne(ps[i], tch, tick)]

PassLog(lg, p, tch) ==
    IF p.active /\ NotTouched(tch, p.id) /\ p.id \in EntityIds
    THEN [lg EXCEPT ![p.id].integ = Sat(@), ![p.id].idle = Sat(@),
                    ![p.id].idleInput = IdleInput(p)]
    ELSE lg

RECURSIVE PassLogAll(_, _, _, _)
PassLogAll(lg, ps, tch, i) ==
    IF i > Len(ps) THEN lg
    ELSE PassLogAll(PassLog(lg, ps[i], tch), ps, tch, i + 1)

\* static_cast<int16_t>(p.health)
AsInt16(n) == ((n + 32768) % 65536) - 32768

\* buildSnapshot's buffer: the header, then one record per entity in store order
WireRecord(p) ==
    [id |-> p.id, yaw |-> p.yaw, pitch |-> p.pitch, health |-> AsInt16(p.health),
     active |-> IF p.active THEN 1 ELSE 0, isBot |-> IF p.isBot THEN 1 ELSE 0,
     weapon |-> p.weapon, lastSeq |-> p.lastSeq]

BuildSnapshot(ps, tick) ==
    <<[tick |-> tick, count |-> Len(ps) % 65536]>>
        \o [i \in 1 .. Len(ps) |-> WireRecord(ps[i])]

\* ------------------------------------------------------------ kinematics
\* Lengths are in thousandths of a world unit, velocities in thousandths of
\* a unit per second; dt is 1/60 s. A yaw is a number of quarter turns, a
\* movement intent is -1, 0 or 1 per axis.
Milli == 1000
TicksPerSecond == 60

\* the kinematic part of a PlayerState
KinZero == [x |-> 0, y |-> 0, z |-> 0, vx |-> 0, vy |-> 0, vz |-> 0,
            yaw |-> 0, pitch |-> 0]

\* a float that is not a number (NaN): the result of arithmetic on a NaN,
\* and every comparison with it is false
NotANumber == -(2 ^ 30)
NanSum(a, b) == IF a = NotANumber \/ b = NotANumber THEN NotANumber ELSE a + b

\* a / b rounded toward zero
Quot(a, b) == IF a >= 0 THEN a \div b ELSE -((-a) \div b)

RECURSIVE SqrtBetween(_, _, _)
\* the largest r in lo .. hi with r * r <= n
SqrtBetween(n, lo, hi) ==
    IF lo >= hi THEN lo
    ELSE LET mid == (lo + hi + 1) \div 2
         IN IF mid * mid <= n THEN SqrtBetween(n, mid, hi)
            ELSE SqrtBetween(n, lo, mid - 1)

\* std::sqrt / Math.hypot, rounded down
Sqrt(n) == SqrtBetween(n, 0, 46340)

\* std::sin / std::cos of a yaw given in quarter turns
Sin(q) == <<0, 1, 0, -1>>[(q % 4) + 1]
Cos(q) == <<1, 0, -1, 0>>[(q % 4) + 1]

\* integratePlayer, lines 243-255: the normalised movement direction
MoveDir(input) ==
    IF input.moveX = NotANumber \/ input.moveZ = NotANumber
    THEN [x |-> NotANumber, z |-> NotANumber]
    ELSE
    LET dx == (-Sin(input.yaw)) * input.moveZ + Cos(input.yaw) * input.moveX
        dz == (-Cos(input.yaw)) * input.moveZ + (-Sin(input.yaw)) * input.moveX
        len == Sqrt((dx * dx + dz * dz) * Milli * Milli)
    IN IF len > 0
       THEN [x |-> Quot(dx * Milli * Milli, len), z |-> Quot(dz * Milli * Milli, len)]
       ELSE [x |-> 0, z |-> 0]

\* lines 256-259: p.vx += moveDirX * accel * dt
Accelerate(p, input, accel) ==
    IF MoveDir(input).x = NotANumber
    THEN [p EXCEPT !.vx = NotANumber, !.vz = NotANumber]
    ELSE
    [p EXCEPT !.vx = NanSum(@, Quot(MoveDir(input).x * accel, TicksPerSecond)),
              !.vz = NanSum(@, Quot(MoveDir(input).z * accel, TicksPerSecond))]

\* lines 261-271: friction
Friction(p, friction) ==
    IF p.vx = NotANumber \/ p.vz = NotANumber THEN p
    ELSE
    LET speed == Sqrt(p.vx * p.vx + p.vz * p.vz)
        drop == Quot(speed * friction, TicksPerSecond)
        newSpeed == IF speed - drop > 0 THEN speed - drop ELSE 0
    IN IF speed > 0 /\ newSpeed # speed
       THEN [p EXCEPT !.vx = Quot(@ * newSpeed, speed),
                      !.vz = Quot(@ * newSpeed, speed)]
       ELSE p

\* lines 273-279: the speed clamp
ClampSpeed(p, maxSpeed) ==
    IF p.vx = NotANumber \/ p.vz = NotANumber THEN p
    ELSE
    LET newSpeed == Sqrt(p.vx * p.vx + p.vz * p.vz)
    IN IF newSpeed > maxSpeed * Milli
       THEN [p EXCEPT !.vx = Quot(@ * maxSpeed * Milli, newSpeed),
                      !.vz = Quot(@ * maxSpeed * Milli, newSpeed)]
       ELSE p

\* lines 281-282: p.x += p.vx * dt
Advance(p) ==
    [p EXCEPT !.x = IF p.vx = NotANumber THEN NotANumber
                    ELSE NanSum(@, Quot(p.vx, TicksPerSecond)),
              !.z = IF p.vz = NotANumber THEN NotANumber
                    ELSE NanSum(@, Quot(p.vz, TicksPerSecond))]

\* lines 284-299: jump, gravity and the ground
Vertical(p, input, gravity, jumpVel, groundY) ==
    LET onGround == p.y <= groundY + 50
        vy0 == IF input.jump /\ onGround THEN jumpVel * Milli ELSE p.vy
        vy1 == vy0 - Quot(gravity * Milli, TicksPerSecond)
        y1 == p.y + Quot(vy1, TicksPerSecond)
    IN IF y1 < groundY THEN [p EXCEPT !.y = groundY, !.vy = 0]
       ELSE [p EXCEPT !.y = y1, !.vy = vy1]

\* a wall or the footprint of a platform, in world units
Box(minX, maxX, minZ, maxZ) ==
    [minX |-> minX * Milli, maxX |-> maxX * Milli,
     minZ |-> minZ * Milli, maxZ |-> maxZ * Milli]

\* overlapsWall
OverlapsWall(p, w, r) ==
    /\ p.x # NotANumber /\ p.z # NotANumber
    /\ p.x + r > w.minX /\ p.x - r < w.maxX
    /\ p.z + r > w.minZ /\ p.z - r < w.maxZ

\* resolveWalls, lines 637-653: the push out of one box along the axis of
\* least penetration
PushOutMut(p, w, r) == [p EXCEPT !.vx = 0, !.vz = 0]
PushOut(p, w, r) ==
    LET penLeft == w.maxX - (p.x - r)
        penRight == (p.x + r) - w.minX
        penDown == (p.z + r) - w.minZ
        penUp == w.maxZ - (p.z - r)
        a1 == IF penRight < penLeft THEN [pen |-> penRight, axis |-> 1]
              ELSE [pen |-> penLeft, axis |-> 0]
        a2 == IF penDown < a1.pen THEN [pen |-> penDown, axis |-> 2] ELSE a1
        a3 == IF penUp < a2.pen THEN [pen |-> penUp, axis |-> 3] ELSE a2
    IN CASE a3.axis = 0 -> [p EXCEPT !.x = w.maxX + r, !.vx = 0]
         [] a3.axis = 1 -> [p EXCEPT !.x = w.minX - r, !.vx = 0]
         [] a3.axis = 2 -> [p EXCEPT !.z = w.minZ - r, !.vz = 0]
         [] a3.axis = 3 -> [p EXCEPT !.z = w.maxZ + r, !.vz = 0]

RECURSIVE ResolveWalls(_, _, _)
\* resolveWalls: the walls in list order
ResolveWalls(p, walls, r) ==
    IF walls = <<>> THEN p
    ELSE ResolveWalls(IF OverlapsWall(p, Head(walls), r)
                      THEN PushOut(p, Head(walls), r) ELSE p,
                      Tail(walls), r)

\* resolvePlatforms, lines 658-685: one platform
ResolvePlatform(p, pl, r) ==
    IF ~OverlapsWall(p, pl.box, r) THEN p
    ELSE LET landed == IF p.vy < 0 /\ p.y <= pl.height + 200
                          /\ p.y >= pl.height - 800
                       THEN [p EXCEPT !.y = pl.height, !.vy = 0] ELSE p
         IN IF landed.y > pl.height + 200 THEN landed
            ELSE PushOut(landed, pl.box, r)

RECURSIVE ResolvePlatforms(_, _, _)
\* resolvePlatforms: the platforms in list order
ResolvePlatforms(p, pls, r) ==
    IF pls = <<>> THEN p
    ELSE ResolvePlatforms(ResolvePlatform(p, Head(pls), r), Tail(pls), r)

\* clampf(v, lo, hi) == std::max(lo, std::min(hi, v)); std::min(hi, v) is hi
\* when v is not a number
Clampf(v, lo, hi) ==
    IF v = NotANumber THEN hi
    ELSE IF v < lo THEN lo ELSE IF v > hi THEN hi ELSE v

\* Math.min(hi, Math.max(lo, v)), which is NaN when v is
ClampJs(v, lo, hi) == IF v = NotANumber THEN NotANumber ELSE Clampf(v, lo, hi)

\* lines 304-306: the world bounds
ClampWorld(p, half) ==
    [p EXCEPT !.x = Clampf(@, -(half * Milli), half * Milli),
              !.z = Clampf(@, -(half * Milli), half * Milli)]

\* setupMap: walls_ for a half extent h
ServerWalls(h) ==
    <<Box(-h, h, h - 1, h), Box(-h, h, -h, -h + 1),
      Box(-h, -h + 1, -h, h), Box(h - 1, h, -h, h),
      Box(-18, 18, 18, 20), Box(-18, -6, 10, 12), Box(6, 18, 10, 12),
      Box(-18, -16, 10, 20), Box(16, 18, 10, 20),
      Box(-18, 18, -20, -18), Box(-18, -6, -12, -10), Box(6, 18, -12, -10),
      Box(-18, -16, -20, -10), Box(16, 18, -20, -10)>>

\* addPlatform(cx, cz, halfSize, height), in thousandths
AddPlatform(cx, cz, halfSize, height) ==
    [box |-> [minX |-> cx - halfSize, maxX |-> cx + halfSize,
              minZ |-> cz - halfSize, maxZ |-> cz + halfSize],
     height |-> height]

\* setupMap: platforms_
ServerPlatforms ==
    <<AddPlatform(-14000, -14000, 700, 1400), AddPlatform(14000, 14000, 700, 1400),
      AddPlatform(-5000, -17000, 700, 1400), AddPlatform(5000, 17000, 700, 1400),
      AddPlatform(0, 0, 700, 1400)>>

playerRadius_ == 350

\* integratePlayer, lines 243-301: up to and including resolveWalls
BeforePlatforms(p, input, cfg) ==
    LET p1 == Accelerate(p, input, 50)
        p2 == Friction(p1, 8)
        p3 == ClampSpeed(p2, 12)
        p4 == Advance(p3)
        p5 == Vertical(p4, input, 26, 11, 1000)
    IN ResolveWalls(p5, ServerWalls(cfg.worldHalfExtent), playerRadius_)

\* GameServer::integratePlayer for a server configured with cfg
ServerStep(p, input, cfg) ==
    LET p6 == BeforePlatforms(p, input, cfg)
        p7 == ResolvePlatforms(p6, ServerPlatforms, playerRadius_)
        p8 == ClampWorld(p7, cfg.worldHalfExtent)
    IN [p8 EXCEPT !.yaw = input.yaw, !.pitch = input.pitch]

\* lines 287-299: onGround as integratePlayer leaves it
OnGround(p, input, groundY) ==
    LET onGround == p.y <= groundY + 50
        vy0 == IF input.jump /\ onGround THEN 11 * Milli ELSE p.vy
        vy1 == vy0 - Quot(26 * Milli, TicksPerSecond)
    IN (p.y + Quot(vy1, TicksPerSecond) < groundY) \/ (onGround /\ ~input.jump)

\* resolvePlatforms, lines 664-668: the landing test of one platform
Lands(p, pl, r) ==
    /\ OverlapsWall(p, pl.box, r)
    /\ p.vy < 0 /\ p.y <= pl.height + 200 /\ p.y >= pl.height - 800

RECURSIVE Landed(_, _, _)
\* resolvePlatforms: some platform of the list took the landing branch
Landed(p, pls, r) ==
    IF pls = <<>> THEN FALSE
    ELSE Lands(p, Head(pls), r)
           \/ Landed(ResolvePlatform(p, Head(pls), r), Tail(pls), r)

\* GameServer::integratePlayer, the grounded flag included (line 299: the
\* flag is onGround; line 667: a landing sets it)
IntegratePlayerFull(p, input, cfg) ==
    [ServerStep(p, input, cfg) EXCEPT
        !.grounded = OnGround(p, input, 1000)
                        \/ Landed(BeforePlatforms(p, input, cfg),
                                  ServerPlatforms, playerRadius_)]

\* predict.ts, lines 16-24
MAX_SPEED == 12
ACCEL == 50
FRICTION == 8
WORLD_HALF == 24
PLAYER_RADIUS == 350
GRAVITY == 26
JUMP_VEL == 11
GROUND_Y == 1000

\* predict.ts: WALLS
WALLS ==
    <<Box(-WORLD_HALF, WORLD_HALF, WORLD_HALF - 1, WORLD_HALF),
      Box(-WORLD_HALF, WORLD_HALF, -WORLD_HALF, -WORLD_HALF + 1),
      Box(-WORLD_HALF, -WORLD_HALF + 1, -WORLD_HALF, WORLD_HALF),
      Box(WORLD_HALF - 1, WORLD_HALF, -WORLD_HALF, WORLD_HALF),
      Box(-18, 18, 18, 20), Box(-18, -6, 10, 12), Box(6, 18, 10, 12),
      Box(-18, -16, 10, 20), Box(16, 18, 10, 20),
      Box(-18, 18, -20, -18), Box(-18, -6, -12, -10), Box(6, 18, -12, -10),
      Box(-18, -16, -20, -10), Box(16, 18, -20, -10)>>

\* predict.ts: PLATFORMS, in thousandths
PLATFORMS ==
    <<[box |-> [minX |-> -14700, maxX |-> -13300, minZ |-> -14700, maxZ |-> -13300],
       height |-> 1400],
      [box |-> [minX |-> 13300, maxX |-> 14700, minZ |-> 13300, maxZ |-> 14700],
       height |-> 1400],
      [box |-> [minX |-> -5700, maxX |-> -4300, minZ |-> -17700, maxZ |-> -16300],
       height |-> 1400],
      [box |-> [minX |-> 4300, maxX |-> 5700, minZ |-> 16300, maxZ |-> 17700],
       height |-> 1400],
      [box |-> [minX |-> -700, maxX |-> 700, minZ |-> -700, maxZ |-> 700],
       height |-> 1400]>>

\* Predictor.applyCommand, the kinematic and orientation fields
ApplyCommand(state, cmd) ==
    LET s1 == Accelerate(state, cmd, ACCEL)
        s2 == Friction(s1, FRICTION)
        s3 == ClampSpeed(s2, MAX_SPEED)
        s4 == Advance(s3)
        s5 == Vertical(s4, cmd, GRAVITY, JUMP_VEL, GROUND_Y)
        s6 == ResolveWalls(s5, WALLS, PLAYER_RADIUS)
        s7 == ResolvePlatforms(s6, PLATFORMS, PLAYER_RADIUS)
        s8 == [s7 EXCEPT !.x = ClampJs(@, -(WORLD_HALF * Milli),
                                       WORLD_HALF * Milli),
                         !.z = ClampJs(@, -(WORLD_HALF * Milli),
                                       WORLD_HALF * Milli)]
    IN [s8 EXCEPT !.yaw = cmd.yaw, !.pitch = cmd.pitch]

\* StartServer's file-level gConfig{64, 40.0f, 0} (addon.cc)
gConfig == [maxPlayers |-> 64, worldHalfExtent |-> 40, botCount |-> 0]

\* the state after the static construction of gServer, the two stores and
\* the tick counter aside
ConstructedAside(h) ==
    /\ buffer_ = [i \in Slots |-> ZeroPacket]
    /\ head_ = 0
    /\ tail_ = 0
    /\ running_ = FALSE
    /\ config_ = [maxPlayers |-> 64, worldHalfExtent |-> 24, botCount |-> 0]
    /\ snapshot_ = <<>>
    /\ snapshotMutex_ = "none"
    /\ spc = "none"
    /\ touched = {}
    /\ data = <<>>
    /\ rpc = "idle"
    /\ rout = <<>>
    /\ horizon = h
    /\ pushes = 0
    /\ reads = 0
    /\ tickLog = TickLogZero
    /\ payload = [bytes |-> <<>>, n |-> 0]
    /\ pushed = FALSE
    /\ wire = <<>>
    /\ parsed = [ok |-> FALSE, tick |-> 0, players |-> <<>>]
    /\ kstate = KinZero /\ snext = KinZero /\ cnext = KinZero
    /\ kcmd = ZeroPacket
    /\ ksteps = 0
    /\ predSeq = 1
    /\ pending = <<>>
    /\ localState = <<>>
    /\ lastHealth = 100
    /\ inflight = <<>> /\ snapMsg = <<>> /\ srvEntity = <<>>
    /\ ack = 0 /\ dropped = 0
    /\ sentLog = <<>> /\ recvLog = <<>>
    /\ stopc = "idle"
    /\ seenTick = 0
    /\ lastShot = [id \in EntityIds |-> -1]
    /\ runs = 0

\* the state after the static construction of gServer, the two stores aside
ConstructedRest(h) ==
    /\ ConstructedAside(h)
    /\ tickCount_ = 0

\* the state after the static construction of gServer
Constructed(h) ==
    /\ ConstructedRest(h)
    /\ players_ = <<>>
    /\ spiders_ = <<>>

\* no context is inside the step-wise push / pop of the ring specifications
NoRingCalls ==
    /\ producers = {}
    /\ ppc = <<>> /\ phead = <<>> /\ ppkt = <<>> /\ praced = <<>> /\ pres = <<>>
    /\ cpc = "idle" /\ ctail = 0 /\ cpkt = ZeroPacket /\ craced = FALSE
    /\ cres = TRUE
    /\ nextCmd = 0 /\ accepted = <<>> /\ popped = <<>>

ringCallVars == <<prodVars, consVars, histVars>>

\* ------------------------------------------ InputRing, step by step
RingSpecInit(ps) ==
    /\ Constructed(0)
    /\ producers = ps
    /\ ppc = [p \in ps |-> "idle"]
    /\ phead = [p \in ps |-> 0]
    /\ ppkt = [p \in ps |-> ZeroPacket]
    /\ praced = [p \in ps |-> FALSE]
    /\ pres = [p \in ps |-> TRUE]
    /\ cpc = "idle"
    /\ ctail = 0
    /\ cpkt = ZeroPacket
    /\ craced = FALSE
    /\ cres = TRUE
    /\ nextCmd = 0
    /\ accepted = <<>>
    /\ popped = <<>>

\* the producers / the consumer whose plain access to slot s is in progress
WritersOf(s) == {q \in producers : ppc[q] = "writing" /\ phead[q] = s}
ReaderOf(s) == cpc = "reading" /\ ctail = s

\* push, line 66: const size_t head = head_.load(relaxed)
PushLoadHead(p) ==
    /\ ppc[p] = "idle"
    /\ nextCmd < MaxCmds
    /\ nextCmd' = nextCmd + 1
    /\ ppkt' = [ppkt EXCEPT ![p] =
                   Packet(p, nextCmd + 1, 0, 0, 0, 0, FALSE, 0, FALSE)]
    /\ phead' = [phead EXCEPT ![p] = head_]
    /\ ppc' = [ppc EXCEPT ![p] = "check"]
    /\ UNCHANGED gameVars
    /\ UNCHANGED <<ringVars, producers, praced, pres, consVars, accepted, popped>>

\* push, lines 67-70: next = (head + 1) % kSize; if (next == tail_.load()) return false
PushCheckFull(p) ==
    /\ ppc[p] = "check"
    /\ IF IsFull(RingNext(phead[p]), tail_)
       THEN /\ ppc' = [ppc EXCEPT ![p] = "idle"]
            /\ pres' = [pres EXCEPT ![p] = FALSE]
       ELSE /\ ppc' = [ppc EXCEPT ![p] = "write"]
            /\ pres' = pres
    /\ UNCHANGED gameVars
    /\ UNCHANGED <<ringVars, producers, phead, ppkt, praced, consVars, histVars>>

\* push, line 71: buffer_[head] = packet -- the plain write begins
PushWriteBegin(p) ==
    /\ ppc[p] = "write"
    /\ ppc' = [ppc EXCEPT ![p] = "writing"]
    /\ LET others == WritersOf(phead[p]) \ {p}
           clash == others # {} \/ ReaderOf(phead[p])
       IN /\ praced' = [q \in producers |->
                          IF q = p THEN clash
                          ELSE IF q \in others THEN TRUE ELSE praced[q]]
          /\ craced' = IF ReaderOf(phead[p]) THEN TRUE ELSE craced
    /\ UNCHANGED gameVars
    /\ UNCHANGED <<ringVars, producers, phead, ppkt, pres, cpc, ctail, cpkt,
                   cres, histVars>>

\* push, line 71: the plain write ends; a raced write may leave torn bytes
PushWriteEnd(p) ==
    /\ ppc[p] = "writing"
    /\ \E v \in (IF praced[p] THEN {ppkt[p], TornPacket} ELSE {ppkt[p]}) :
          buffer_' = [buffer_ EXCEPT ![phead[p]] = v]
    /\ ppc' = [ppc EXCEPT ![p] = "store"]
    /\ UNCHANGED gameVars
    /\ UNCHANGED <<head_, tail_, producers, phead, ppkt, praced, pres,
                   consVars, histVars>>

\* push, lines 72-73: head_.store(next, release); return true
PushStoreHead(p) ==
    /\ ppc[p] = "store"
    /\ head_' = RingNext(phead[p])
    /\ ppc' = [ppc EXCEPT ![p] = "idle"]
    /\ pres' = [pres EXCEPT ![p] = TRUE]
    /\ praced' = [praced EXCEPT ![p] = FALSE]
    /\ accepted' = Append(accepted, ppkt[p])
    /\ UNCHANGED gameVars
    /\ UNCHANGED <<buffer_, tail_, producers, phead, ppkt, consVars, nextCmd,
                   popped>>

\* pop, line 77: const size_t tail = tail_.load(relaxed)
PopLoadTail ==
    /\ cpc = "idle"
    /\ ctail' = tail_
    /\ cpc' = "check"
    /\ UNCHANGED gameVars
    /\ UNCHANGED <<ringVars, prodVars, cpkt, craced, cres, histVars>>

\* pop, lines 78-80: if (tail == head_.load()) return false
PopCheckEmpty ==
    /\ cpc = "check"
    /\ IF IsEmpty(ctail, head_)
       THEN cpc' = "idle" /\ cres' = FALSE
       ELSE cpc' = "read" /\ cres' = cres
    /\ UNCHANGED gameVars
    /\ UNCHANGED <<ringVars, prodVars, ctail, cpkt, craced, histVars>>

\* pop, line 81: packet = buffer_[tail] -- the plain read begins
PopReadBegin ==
    /\ cpc = "read"
    /\ cpc' = "reading"
    /\ craced' = (WritersOf(ctail) # {})
    /\ praced' = [q \in producers |->
                    IF q \in WritersOf(ctail) THEN TRUE ELSE praced[q]]
    /\ UNCHANGED gameVars
    /\ UNCHANGED <<ringVars, producers, ppc, phead, ppkt, pres, ctail, cpkt,
                   cres, histVars>>

\* pop, line 81: the plain read ends; a raced read may see torn bytes
PopReadEnd ==
    /\ cpc = "reading"
    /\ \E v \in (IF craced THEN {buffer_[ctail], TornPacket}
                 ELSE {buffer_[ctail]}) : cpkt' = v
    /\ cpc' = "store"
    /\ UNCHANGED gameVars
    /\ UNCHANGED <<ringVars, prodVars, ctail, craced, cres, histVars>>

\* pop, lines 82-84: tail_.store((tail + 1) % kSize, release); return true
PopStoreTail ==
    /\ cpc = "store"
    /\ tail_' = RingNext(ctail)
    /\ cpc' = "idle"
    /\ cres' = TRUE
    /\ craced' = FALSE
    /\ popped' = Append(popped, cpkt)
    /\ UNCHANGED gameVars
    /\ UNCHANGED <<buffer_, head_, prodVars, ctail, cpkt, nextCmd, accepted>>

Producer(p) ==
    \/ PushLoadHead(p)
    \/ PushCheckFull(p)
    \/ PushWriteBegin(p)
    \/ PushWriteEnd(p)
    \/ PushStoreHead(p)

Consumer ==
    \/ PopLoadTail
    \/ PopCheckEmpty
    \/ PopReadBegin
    \/ PopReadEnd
    \/ PopStoreTail

RingNextStep == (\E p \in producers : Producer(p)) \/ Consumer

\* one producer context and the one consumer
SpecSPSC == RingSpecInit({1}) /\ [][RingNextStep]_vars

\* two producer contexts and the one consumer
SpecMPSC == RingSpecInit({1, 2}) /\ [][RingNextStep]_vars

\* ------------------------------------------------- GameServer: actions
\* GameServer::start
Start(cfg) ==
    /\ ~running_
    /\ spc \in {"none", "exited"}
    /\ config_' = cfg
    /\ running_' = TRUE
    /\ tickCount_' = 0
    /\ players_' = <<>>
    /\ spiders_' = <<>>
    /\ snapshot_' = <<>>
    /\ spc' = "loop"
    /\ seenTick' = 0
    /\ lastShot' = [id \in EntityIds |-> -1]
    /\ runs' = IF runs < MaxRuns THEN runs + 1 ELSE runs
    /\ UNCHANGED <<ringVars, ringCallVars, snapshotMutex_, touched, data, rpc,
                   rout, horizon, boundaryVars, wireVars, stepVars,
                   predictVars, stopc, pushes, reads, tickLog>>

\* StartServer (addon.cc): maxPlayers and worldHalfExtent come from the
\* caller's object, botCount stays gConfig's
StartServer(mp, half) ==
    Start([gConfig EXCEPT !.maxPlayers = mp, !.worldHalfExtent = half])

\* GameServer::pushInput -> InputRing::push, as one step of the one transport
\* thread (the step-wise push is the subject of the ring specifications)
RingPush(pkt) ==
    IF IsFull(RingNext(head_), tail_)
    THEN UNCHANGED ringVars
    ELSE /\ buffer_' = [buffer_ EXCEPT ![head_] = pkt]
         /\ head_' = RingNext(head_)
         /\ tail_' = tail_

\* the transport submits a command; the examined run holds `budget` calls
PushInputWithin(pkt, budget) ==
    /\ spc # "none"
    /\ pushes < budget
    /\ tickCount_ < horizon
    /\ pushes' = pushes + 1
    /\ RingPush(pkt)
    /\ UNCHANGED <<ringCallVars, running_, tickCount_, config_, players_,
                   snapshot_, snapshotMutex_, spc, touched, data, rpc, rout,
                   horizon, extVars,
                   spiders_, reads, tickLog>>

PushInput(pkt) == PushInputWithin(pkt, MaxPushes)

\* while (ring_.pop(pkt)): the drain goes on
DrainMoreMut(tail, head) == FALSE
DrainMore(tail, head) == ~IsEmpty(tail, head)

\* stepSimulation, line 163: tickCount_.fetch_add(1)
NextTickMut(t) == t + 2
NextTick(t) == t + 1

\* the tick thread is at the loop test with running_ set, or inside the drain
InDrain == (spc = "loop" /\ running_) \/ spc = "drain"

\* the ticks of the last accepted shots, after a step that took the tick's
\* log from `before` to `after`
ShotsNoted(before, after, tick) ==
    [id \in EntityIds |->
        IF after[id].shots > before[id].shots THEN tick ELSE lastShot[id]]

\* the damage functions to enumerate for one processInput call
ShotChoices(pkt, tick, n) ==
    IF pkt.fire /\ tick >= kShotgun.cooldownTicks
    THEN DamageChoices(n) ELSE {NoDamage(n)}

\* stepSimulation, lines 133-135: one pop that succeeds and its processInput
SimPop ==
    /\ InDrain
    /\ tickCount_ < horizon
    /\ DrainMore(tail_, head_)
    /\ LET pkt == buffer_[tail_]
           tch == IF spc = "loop" THEN {} ELSE touched
           lg == IF spc = "loop" THEN TickLogStart(players_) ELSE tickLog
       IN \E dmg \in ShotChoices(pkt, tickCount_, Len(players_) + 1) :
             LET w == ProcessInput(World(players_, tch, LogCommand(lg, pkt)),
                                   pkt, tickCount_, config_, dmg)
             IN /\ players_' = w.players
                /\ touched' = w.touched
                /\ tickLog' = w.log
                /\ lastShot' = ShotsNoted(lg, w.log, tickCount_)
    /\ tail_' = RingNext(tail_)
    /\ spc' = "drain"
    /\ UNCHANGED <<buffer_, head_, ringCallVars, running_, tickCount_, config_,
                   snapshot_, snapshotMutex_, data, rpc, rout, horizon,
                   boundaryVars, wireVars, stepVars, predictVars, stopc,
                   seenTick, runs, spiders_, pushes, reads>>

\* stepSimulation, lines 133-164: the pop that fails, updateBots, the
\* per-entity pass, the tick increment and buildSnapshot up to its lock
SimFinishWith(inputs) ==
    /\ InDrain
    /\ tickCount_ < horizon
    /\ ~DrainMore(tail_, head_)
    /\ LET tch == IF spc = "loop" THEN {} ELSE touched
           lg == IF spc = "loop" THEN TickLogStart(players_) ELSE tickLog
       IN \E botIn \in inputs :
             LET w == UpdateBots(World(players_, tch, lg), tickCount_, config_,
                                 botIn)
                 ps == PassAll(w.players, w.touched, tickCount_)
             IN /\ players_' = ps
                /\ touched' = w.touched
                /\ tickLog' = PassLogAll(w.log, w.players, w.touched, 1)
                /\ lastShot' = ShotsNoted(lg, w.log, tickCount_)
                /\ tickCount_' = NextTick(tickCount_)
                /\ data' = BuildSnapshot(ps, NextTick(tickCount_))
    /\ spc' = "publish"
    /\ UNCHANGED <<ringVars, ringCallVars, running_, config_, snapshot_,
                   snapshotMutex_, rpc, rout, horizon, boundaryVars, wireVars,
                   stepVars, predictVars, stopc, seenTick, runs, spiders_,
                   pushes, reads>>

SimFinish == SimFinishWith(BotInputs(config_))

\* std::lock_guard: the mutex can be taken
MutexFreeMut(holder) == TRUE
MutexFree(holder) == holder = "none"

\* buildSnapshot, lines 400-401: lock, snapshot_.swap(data), unlock
SimPublish ==
    /\ spc = "publish"
    /\ MutexFree(snapshotMutex_)
    /\ snapshot_' = data
    /\ data' = <<>>
    /\ spc' = "loop"
    /\ UNCHANGED <<ringVars, ringCallVars, running_, tickCount_, config_,
                   players_, snapshotMutex_, touched, rpc, rout, horizon, extVars,
                   spiders_,
                   pushes, reads, tickLog>>

\* getSnapshot, line 114: the lock is taken (GetSnapshot passes an empty vector)
ReaderLockWithin(budget) ==
    /\ rpc = "idle"
    /\ spc # "none"
    /\ reads < budget
    /\ MutexFree(snapshotMutex_)
    /\ snapshotMutex_' = "reader"
    /\ rpc' = "locked"
    /\ rout' = <<>>
    /\ reads' = reads + 1
    /\ UNCHANGED <<ringVars, ringCallVars, running_, tickCount_, config_,
                   players_, snapshot_, spc, touched, data, horizon, extVars,
                   spiders_, pushes,
                   tickLog>>

ReaderLock == ReaderLockWithin(MaxReads)

\* getSnapshot, line 115: the buffer copied, of the published one and the
\* one buildSnapshot is filling
PublishedMut(published, building) == building
Published(published, building) == published

\* getSnapshot, line 115: outSnapshot = snapshot_, the header bytes
ReaderCopyHead ==
    /\ rpc = "locked"
    /\ rout' = IF Published(snapshot_, data) = <<>> THEN <<>>
               ELSE <<Published(snapshot_, data)[1]>>
    /\ rpc' = "copying"
    /\ UNCHANGED <<ringVars, ringCallVars, running_, tickCount_, config_,
                   players_, snapshot_, snapshotMutex_, spc, touched, data,
                   horizon, extVars,
                   spiders_, pushes, reads, tickLog>>

\* getSnapshot, line 115: outSnapshot = snapshot_, the record bytes
ReaderCopyBody ==
    /\ rpc = "copying"
    /\ rout' = rout \o SubSeq(Published(snapshot_, data), Len(rout) + 1,
                              Len(Published(snapshot_, data)))
    /\ rpc' = "copied"
    /\ UNCHANGED <<ringVars, ringCallVars, running_, tickCount_, config_,
                   players_, snapshot_, snapshotMutex_, spc, touched, data,
                   horizon, extVars,
                   spiders_, pushes, reads, tickLog>>

\* getSnapshot, line 116: the lock is released and the call returns
ReaderUnlock ==
    /\ rpc = "copied"
    /\ snapshotMutex_' = "none"
    /\ rpc' = "idle"
    /\ seenTick' = IF rout = <<>> THEN seenTick ELSE rout[1].tick
    /\ UNCHANGED <<ringVars, ringCallVars, running_, tickCount_, config_,
                   players_, snapshot_, spc, touched, data, rout, horizon,
                   boundaryVars, wireVars, stepVars, predictVars, stopc,
                   lastShot, runs, spiders_, pushes, reads, tickLog>>

\* the commands the transport can submit
FreeCommands ==
    {Packet(id, seq, 0, 1, yaw, 0, fire, 0, FALSE) :
        id \in HumanIds, seq \in Seqs, yaw \in Yaws, fire \in BOOLEAN}

\* index.ts starts the server with worldHalfExtent 14
WorldHalfCfg == 14

Init == Constructed(MaxTick) /\ NoRingCalls

Next ==
    \/ \E mp \in (MaxPlayersCfg - 1) .. MaxPlayersCfg : StartServer(mp, WorldHalfCfg)
    \/ \E pkt \in FreeCommands : PushInput(pkt)
    \/ SimPop
    \/ SimFinish
    \/ SimPublish
    \/ ReaderLock
    \/ ReaderCopyHead
    \/ ReaderCopyBody
    \/ ReaderUnlock

\* the server as wired: one transport thread, the tick thread, a snapshot reader
Spec == Init /\ [][Next]_vars

\* ------------------------------------------- fire cooldown scenario
\* ticks 0 .. CooldownTicks - 1 are examined
CooldownTicks == 21

\* fire commands of the one entity of the scenario
CooldownCommands ==
    {Packet(1, 1, 0, 1, yaw, 0, TRUE, 0, FALSE) : yaw \in Yaws}

\* the transport submits one fire command for every tick
CooldownPush ==
    /\ pushes = tickCount_
    /\ \E pkt \in CooldownCommands : PushInputWithin(pkt, CooldownTicks)

\* the tick thread is scheduled after the tick's command has arrived
CooldownFinish == pushes > tickCount_ /\ SimFinish

CooldownNext ==
    \/ StartServer(MaxPlayersCfg, WorldHalfCfg)
    \/ CooldownPush
    \/ SimPop
    \/ CooldownFinish
    \/ SimPublish

\* one entity sends a fire command in every tick from tick 0 on
CooldownInit == Constructed(CooldownTicks) /\ NoRingCalls

SpecCooldown == CooldownInit /\ [][CooldownNext]_vars

\* --------------------------------------------- continuous producer
FloodTicks == 2

FloodCommands ==
    {Packet(1, 1, 0, 1, yaw, 0, FALSE, 0, FALSE) : yaw \in Yaws}

\* GameServer::pushInput, with no limit on the number of calls
FloodPush(pkt) ==
    /\ spc # "none"
    /\ tickCount_ < horizon
    /\ RingPush(pkt)
    /\ UNCHANGED <<ringCallVars, running_, tickCount_, config_, players_,
                   snapshot_, snapshotMutex_, spc, touched, data, rpc, rout,
                   horizon, extVars,
                   spiders_, pushes, reads, tickLog>>

\* the steps of the tick thread
TickThread == SimPop \/ SimFinish \/ SimPublish

FloodNext ==
    \/ StartServer(MaxPlayersCfg, WorldHalfCfg)
    \/ \E pkt \in FloodCommands : FloodPush(pkt)
    \/ TickThread

FloodInit == Constructed(FloodTicks) /\ NoRingCalls

\* the tick thread always gets to run; the transport pushes whenever it likes
SpecFlood ==
    /\ FloodInit
    /\ [][FloodNext]_vars
    /\ WF_vars(TickThread)

\* ------------------------------------------------------- combat run
\* fire commands arrive in the ticks k * cooldownTicks, k = 0 .. MaxVolleys
MaxVolleys == 3
MaxCombatPushes == 5
CombatHorizon == 215

CombatTicks == {k * kShotgun.cooldownTicks : k \in 0 .. MaxVolleys}

CombatCommands ==
    {Packet(id, 1, 0, 1, 0, 0, TRUE, 0, FALSE) : id \in HumanIds}

CombatPush ==
    /\ tickCount_ \in CombatTicks
    /\ \E pkt \in CombatCommands : PushInputWithin(pkt, MaxCombatPushes)

CombatNext ==
    \/ StartServer(MaxPlayersCfg, WorldHalfCfg)
    \/ CombatPush
    \/ SimPop
    \/ SimFinish
    \/ SimPublish

\* sessions that fire at each other over several cooldown periods
CombatInit == Constructed(CombatHorizon) /\ NoRingCalls

SpecCombat == CombatInit /\ [][CombatNext]_vars

\* ------------------------------------------------------ run with bots
MaxBots == 1
BotsTicks == 2

\* GameServer::start called with a configuration that asks for bots
BotsStart ==
    \E mp \in 1 .. MaxPlayersCfg, bc \in 1 .. MaxBots :
        Start([maxPlayers |-> mp, worldHalfExtent |-> WorldHalfCfg,
               botCount |-> bc])

BotsInit == Constructed(BotsTicks) /\ NoRingCalls

BotsNext ==
    \/ BotsStart
    \/ \E pkt \in FreeCommands : PushInput(pkt)
    \/ SimPop
    \/ SimFinish
    \/ SimPublish

\* sessions and bots compete for the places of the store
SpecBots == BotsInit /\ [][BotsNext]_vars

\* ------------------------------------------------- the input wire format
MaxPayloads == 2
MaxSlack == 1
InputBytes == 23
DocInputBytes == 22

\* the four bytes of a 32-bit value, little-endian (a float is carried as its
\* bit pattern)
U32LE(v) ==
    <<v % 256, (v \div 256) % 256, (v \div 65536) % 256, (v \div 16777216) % 256>>

\* memcpy of four bytes at data + idx (idx counts from 0)
Read32(d, idx) ==
    d[idx + 1] + 256 * d[idx + 2] + 65536 * d[idx + 3] + 16777216 * d[idx + 4]

Bit(b) == IF b THEN 1 ELSE 0

\* NetClient.sendInput: the 23 bytes the client writes for a command
SendInput(cmd) ==
    U32LE(cmd.seq) \o U32LE(cmd.moveX) \o U32LE(cmd.moveZ) \o U32LE(cmd.yaw)
    \o U32LE(cmd.pitch) \o <<Bit(cmd.fire), cmd.weapon, Bit(cmd.jump)>>

\* PushInput, lines 56-81: the packet read from data, len bytes being
\* readable according to the length test
ParseInput(playerId, d, len) ==
    Packet(playerId, Read32(d, 0), Read32(d, 4), Read32(d, 8), Read32(d, 12),
           Read32(d, 16), d[21] # 0, d[22],
           IF 22 < len THEN d[23] # 0 ELSE FALSE)

\* buf.ByteLength() - offset: what is left of the ArrayBuffer after the
\* view's offset, whatever the view's own length
RemainingLength(buf) == Len(buf.bytes)

\* len < 23
TooShort(len) == len < InputBytes

\* PushInput (addon.cc) called by the session `playerId` with a Buffer
AddonPushInput(playerId, buf) ==
    /\ spc # "none"
    /\ pushes < MaxPayloads
    /\ tickCount_ < horizon
    /\ pushes' = pushes + 1
    /\ payload' = buf
    /\ LET len == RemainingLength(buf)
       IN IF TooShort(len)
          THEN pushed' = FALSE /\ UNCHANGED ringVars
          ELSE /\ pushed' = ~IsFull(RingNext(head_), tail_)
               /\ RingPush(ParseInput(playerId, buf.bytes, len))
    /\ UNCHANGED <<ringCallVars, running_, tickCount_, config_, players_,
                   snapshot_, snapshotMutex_, spc, touched, data, rpc, rout,
                   horizon, spiders_, reads, tickLog, wireVars, stepVars,
                   predictVars, lifeVars>>

\* the message lengths a peer may send
PayloadLengths == {4, DocInputBytes, InputBytes}
\* the bytes that may follow a message in the memory it was received into
StrayBytes == {0, 1}

\* a Buffer holding the first n bytes of a command's encoding; the
\* ArrayBuffer behind it goes on for `slack` more bytes
Buffers ==
    {[bytes |-> SubSeq(SendInput(cmd), 1, n) \o [i \in 1 .. slack |-> stray],
      n |-> n] :
        cmd \in {Packet(0, seq, 0, 1, yaw, 0, fire, 0, jump) :
                    seq \in Seqs, yaw \in Yaws, fire \in BOOLEAN,
                    jump \in BOOLEAN},
        n \in PayloadLengths, slack \in 0 .. MaxSlack, stray \in StrayBytes}

BoundaryInit == Constructed(1) /\ NoRingCalls

BoundaryNext ==
    \/ StartServer(MaxPlayersCfg, WorldHalfCfg)
    \/ \E id \in HumanIds, buf \in Buffers : AddonPushInput(id, buf)
    \/ SimPop
    \/ SimFinish
    \/ SimPublish

\* the server fed through the addon's PushInput
SpecBoundary == BoundaryInit /\ [][BoundaryNext]_vars

\* ----------------------------------------------- the snapshot wire format
MaxWirePlayers == 2
HeaderBytes == 6
RecordBytes == 45

\* a float as the four bytes of its object representation: 0.0f, 1.0f, -24.0f
FloatPatterns == <<<<0, 0, 0, 0>>, <<0, 0, 128, 63>>, <<0, 0, 192, 193>>>>

\* the kinematic and orientation fields of a PlayerState, by position in
\* the struct
FloatFields == <<"x", "y", "z", "vx", "vy", "vz", "yaw", "pitch">>

\* the two bytes of a 16-bit value, little-endian (two's complement)
U16LE(v) == <<(v + 65536) % 256, ((v + 65536) \div 256) % 256>>

\* uint8_t active = p.active ? 1 : 0
ActiveByteMut(p) == 1
ActiveByte(p) == Bit(p.active)

\* buildSnapshot, lines 381-397: the bytes written for one entity
EncodeRecord(p) ==
    U32LE(p.id) \o p.x \o p.y \o p.z \o p.vx \o p.vy \o p.vz \o p.yaw \o p.pitch
    \o U16LE(AsInt16(p.health)) \o <<ActiveByte(p), Bit(p.isBot), p.weapon>>
    \o U32LE(p.lastSeq)

RECURSIVE EncodeRecords(_)
EncodeRecords(ps) ==
    IF ps = <<>> THEN <<>> ELSE EncodeRecord(Head(ps)) \o EncodeRecords(Tail(ps))

\* buildSnapshot: the bytes of `data`
SnapshotBytes(ps, tick) ==
    U32LE(tick) \o U16LE(Len(ps) % 65536) \o EncodeRecords(ps)

\* DataView.getUint32(offset, true)
GetUint32Mut(d, offset) == d[offset + 1]
GetUint32(d, offset) ==
    d[offset + 1] + 256 * d[offset + 2] + 65536 * d[offset + 3]
        + 16777216 * d[offset + 4]

\* DataView.getUint16(offset, true)
GetUint16(d, offset) == d[offset + 1] + 256 * d[offset + 2]

\* DataView.getInt16(offset, true)
GetInt16(d, offset) ==
    IF GetUint16(d, offset) >= 32768 THEN GetUint16(d, offset) - 65536
    ELSE GetUint16(d, offset)

\* DataView.getFloat32(offset, true): the float these four bytes represent
GetFloat32(d, offset) == SubSeq(d, offset + 1, offset + 4)

\* parseSnapshot, lines 100-128: one pass of the loop body at `offset`
ParseRecord(d, offset) ==
    [id |-> GetUint32(d, offset),
     x |-> GetFloat32(d, offset + 4), y |-> GetFloat32(d, offset + 8),
     z |-> GetFloat32(d, offset + 12), vx |-> GetFloat32(d, offset + 16),
     vy |-> GetFloat32(d, offset + 20), vz |-> GetFloat32(d, offset + 24),
     yaw |-> GetFloat32(d, offset + 28), pitch |-> GetFloat32(d, offset + 32),
     health |-> GetInt16(d, offset + 36),
     active |-> d[offset + 39] = 1, isBot |-> d[offset + 40] = 1,
     weapon |-> d[offset + 41],
     lastSeq |-> GetUint32(d, offset + 41)]

RECURSIVE ParseRecords(_, _, _, _)
\* parseSnapshot's loop from record i on
ParseRecords(d, offset, i, count) ==
    IF i >= count \/ offset + RecordBytes > Len(d) THEN <<>>
    ELSE <<ParseRecord(d, offset)>>
            \o ParseRecords(d, offset + RecordBytes, i + 1, count)

\* NetClient.parseSnapshot; ok = FALSE stands for null
ParseSnapshot(d) ==
    IF Len(d) < HeaderBytes THEN [ok |-> FALSE, tick |-> 0, players |-> <<>>]
    ELSE [ok |-> TRUE, tick |-> GetUint32(d, 0),
          players |-> ParseRecords(d, HeaderBytes, 0, GetUint16(d, 4))]

\* the entity that may sit at place i of the store: a session's entity or a
\* bot, alive or dead, its float fields taking the patterns in rotation
WireEntities(i) ==
    {[[PlayerZero EXCEPT !.id = id, !.health = h, !.active = h > 0,
                         !.isBot = (id >= BotIdBase), !.lastSeq = ls]
        EXCEPT !.yaw = FloatPatterns[((k + 6) % 3) + 1],
               !.pitch = FloatPatterns[((k + 7) % 3) + 1]]
      @@ [f \in {"x", "y", "z", "vx", "vy", "vz"} |->
            FloatPatterns[((k + CHOOSE j \in 1 .. 6 : FloatFields[j] = f) % 3) + 1]] :
        id \in {i, BotIdBase + i}, h \in {0, FullHealth},
        ls \in {2, 65536 + 2}, k \in 0 .. 2}

\* a running server at some tick with some store
WireInit ==
    /\ ConstructedAside(0)
    /\ NoRingCalls
    /\ spiders_ = <<>>
    /\ tickCount_ \in {1, 65536 + 256 + 1}
    /\ \E n \in 0 .. MaxWirePlayers :
          players_ \in [1 .. n -> UNION {WireEntities(i) : i \in 1 .. n}]
          /\ \A i \in 1 .. n : players_[i] \in WireEntities(i)

\* buildSnapshot's bytes leave as a message
WireBuild ==
    /\ wire = <<>>
    /\ wire' = SnapshotBytes(players_, tickCount_)
    /\ UNCHANGED <<ringVars, ringCallVars, running_, tickCount_, config_,
                   players_, spiders_, snapshot_, snapshotMutex_, spc, touched,
                   data, rpc, rout, horizon, pushes, reads, tickLog,
                   boundaryVars, parsed, stepVars, predictVars, lifeVars>>

\* the client's handleMessage parses the message
WireParse ==
    /\ wire # <<>>
    /\ ~parsed.ok
    /\ parsed' = ParseSnapshot(wire)
    /\ UNCHANGED <<ringVars, ringCallVars, running_, tickCount_, config_,
                   players_, spiders_, snapshot_, snapshotMutex_, spc, touched,
                   data, rpc, rout, horizon, pushes, reads, tickLog,
                   boundaryVars, wire, stepVars, predictVars, lifeVars>>

\* buildSnapshot followed by parseSnapshot
SpecWire == WireInit /\ [][WireBuild \/ WireParse]_vars

\* --------------------------------- one entity moved by both routines
MaxSteps == 3
MaxJitter == 1

\* kSpawnPoints
kSpawnPoints ==
    <<<<0, 0>>, <<0, 12>>, <<0, -12>>, <<-12, 12>>, <<12, 12>>, <<-12, -12>>,
      <<12, -12>>, <<0, 18>>, <<0, -18>>>>

\* values of the jitter added to an anchor (it ranges over -1.2 .. 1.2)
Jitters == {j * Milli : j \in (-MaxJitter) .. MaxJitter}

\* respawnPlayer, lines 317-347: the placements it can return at an anchor,
\* those that overlap no wall of the server's map
SpawnStates(cfg) ==
    {st \in {[KinZero EXCEPT !.x = kSpawnPoints[k][1] * Milli + jx,
                               !.z = kSpawnPoints[k][2] * Milli + jz,
                               !.y = 1000] :
                k \in 1 .. Len(kSpawnPoints), jx \in Jitters, jz \in Jitters} :
        \A i \in 1 .. Len(ServerWalls(cfg.worldHalfExtent)) :
            ~OverlapsWall(st, ServerWalls(cfg.worldHalfExtent)[i], playerRadius_)}

\* the commands a session may send for its entity
StepCommands ==
    {Packet(1, 1, 0, moveZ, yaw, 0, FALSE, 0, jump) :
        moveZ \in {0, 1}, yaw \in {0, 2}, jump \in BOOLEAN}

\* processInput creates the entity: respawnPlayer places it
KSpawn ==
    /\ spc # "none"
    /\ ksteps = 0
    /\ kstate = KinZero
    /\ kstate' \in SpawnStates(config_)
    /\ UNCHANGED <<ringVars, ringCallVars, running_, tickCount_, config_,
                   players_, spiders_, snapshot_, snapshotMutex_, spc, touched,
                   data, rpc, rout, horizon, pushes, reads, tickLog,
                   boundaryVars, wireVars, kcmd, snext, cnext, ksteps,
                   predictVars, lifeVars>>

\* the server integrates a command for the entity; the client's routine is
\* applied to the same state and the same command
KStep(cmd) ==
    /\ kstate # KinZero
    /\ ksteps < MaxSteps
    /\ ksteps' = ksteps + 1
    /\ kcmd' = cmd
    /\ snext' = ServerStep(kstate, cmd, config_)
    /\ cnext' = ApplyCommand(kstate, cmd)
    /\ kstate' = snext'
    /\ UNCHANGED <<ringVars, ringCallVars, running_, tickCount_, config_,
                   players_, spiders_, snapshot_, snapshotMutex_, spc, touched,
                   data, rpc, rout, horizon, pushes, reads, tickLog,
                   boundaryVars, wireVars, predictVars, lifeVars>>

StepInit == Constructed(0) /\ NoRingCalls

StepNext ==
    \/ StartServer(MaxPlayersCfg, WorldHalfCfg)
    \/ KSpawn
    \/ \E cmd \in StepCommands : KStep(cmd)

\* integratePlayer and applyCommand applied to the states of one entity
SpecStep == StepInit /\ [][StepNext]_vars

\* ------------------------------------- prediction and reconciliation
MaxSamples == 3
MaxSnapshots == 2

\* the id NetServer gives the session (nextId starts at 1)
playerId == 1

\* what InputController.poll may return
FrameInputs ==
    {[moveX |-> 0, moveZ |-> moveZ, yaw |-> 0, pitch |-> 0, fire |-> FALSE,
      weapon |-> 0, jump |-> jump] : moveZ \in {0, 1}, jump \in BOOLEAN}

\* const cmd = { seq, ...frameInput }
Command(seq, frameInput) ==
    [seq |-> seq, moveX |-> frameInput.moveX, moveZ |-> frameInput.moveZ,
     yaw |-> frameInput.yaw, pitch |-> frameInput.pitch,
     fire |-> frameInput.fire, weapon |-> frameInput.weapon,
     jump |-> frameInput.jump]

\* the main loop's net.sendInput(seq, moveX, moveZ, yaw, pitch, fire, weapon):
\* no eighth argument, so the jump byte is written from `undefined`
LoopSendInput(cmd) == SendInput([cmd EXCEPT !.jump = FALSE])

\* Predictor.applyCommand
PredictorApply(state, cmd) == [ApplyCommand(state, cmd) EXCEPT !.weapon = 0]

\* p.seq > ack
UnackedMut(p, a) == p.seq >= a
Unacked(p, a) == p.seq > a

RECURSIVE Filter(_, _)
\* this.pending.filter((p) => p.seq > ack)
Filter(ps, a) ==
    IF ps = <<>> THEN <<>>
    ELSE (IF Unacked(Head(ps), a) THEN <<Head(ps)>> ELSE <<>>)
            \o Filter(Tail(ps), a)

RECURSIVE Reapply(_, _)
\* for (const cmd of this.pending) this.applyCommand(this.localState, cmd)
Reapply(state, cmds) ==
    IF cmds = <<>> THEN state
    ELSE Reapply(PredictorApply(state, Head(cmds)), Tail(cmds))

\* snap.players.find((p) => p.id === playerId): its index, 0 when absent
Find(players, id) ==
    IF \E i \in 1 .. Len(players) : players[i].id = id
    THEN CHOOSE i \in 1 .. Len(players) :
            players[i].id = id /\ \A j \in 1 .. (i - 1) : players[j].id # id
    ELSE 0

\* a record of a snapshot for an entity with kinematic state k
RemotePlayer(id, k, lastSeq) ==
    [id |-> id, x |-> k.x, y |-> k.y, z |-> k.z, vx |-> k.vx, vy |-> k.vy,
     vz |-> k.vz, yaw |-> k.yaw, pitch |-> k.pitch, health |-> FullHealth,
     active |-> TRUE, isBot |-> FALSE, weapon |-> 0, lastSeq |-> lastSeq]

\* another session's entity, standing still
OtherPlayer ==
    RemotePlayer(playerId + 1, [KinZero EXCEPT !.x = 3000, !.y = 1000], 7)

predictRest == <<ringVars, ringCallVars, running_, tickCount_, config_,
                 players_, spiders_, snapshot_, snapshotMutex_, spc, touched,
                 data, rpc, rout, horizon, pushes, tickLog,
                 boundaryVars, wireVars, stepVars, lifeVars>>

\* one pass of the main loop's while body: poll, nextSeq, sendInput,
\* enqueueAndPredict
Sample(frameInput) ==
    /\ spc # "none"
    /\ predSeq <= MaxSamples
    /\ LET cmd == Command(predSeq, frameInput)
       IN /\ predSeq' = predSeq + 1
          /\ inflight' = Append(inflight, LoopSendInput(cmd))
          /\ sentLog' = Append(sentLog, cmd)
          /\ IF localState = <<>>
             THEN UNCHANGED <<pending, localState>>
             ELSE /\ pending' = Append(pending, cmd)
                  /\ localState' = <<PredictorApply(localState[1], cmd)>>
    /\ UNCHANGED <<lastHealth, snapMsg, srvEntity, ack, dropped, recvLog,
                   reads, predictRest>>

\* the server processes the oldest input message of the session:
\* PushInput's parse, then processInput (creation with respawnPlayer,
\* integratePlayer, lastSeq)
ServerProcess ==
    /\ inflight # <<>>
    /\ LET pkt == ParseInput(playerId, Head(inflight), Len(Head(inflight)))
       IN /\ recvLog' = Append(recvLog, pkt)
          /\ \E spawn \in (IF srvEntity = <<>> THEN SpawnStates(config_)
                            ELSE {KinZero}) :
                LET before == IF srvEntity = <<>>
                              THEN RemotePlayer(playerId, spawn, pkt.seq)
                              ELSE srvEntity[1]
                IN srvEntity' =
                      <<[ServerStep(before, pkt, config_)
                            EXCEPT !.lastSeq = pkt.seq]>>
    /\ inflight' = Tail(inflight)
    /\ UNCHANGED <<predSeq, pending, localState, lastHealth, snapMsg, ack,
                   dropped, sentLog, reads, predictRest>>

\* a snapshot of the store leaves for the client (one is on its way at a time)
SendSnapshot ==
    /\ spc # "none"
    /\ snapMsg = <<>>
    /\ reads < MaxSnapshots
    /\ reads' = reads + 1
    /\ snapMsg' = <<<<OtherPlayer>> \o srvEntity>>
    /\ UNCHANGED <<predSeq, pending, localState, lastHealth, inflight,
                   srvEntity, ack, dropped, sentLog, recvLog, predictRest>>

\* Predictor.applySnapshot(snap, playerId)
ApplySnapshot ==
    /\ snapMsg # <<>>
    /\ snapMsg' = <<>>
    /\ LET players == snapMsg[1]
           me == Find(players, playerId)
       IN IF me = 0
          THEN UNCHANGED <<pending, localState, lastHealth, ack, dropped>>
          ELSE /\ lastHealth' = players[me].health
               /\ ack' = players[me].lastSeq
               /\ pending' = Filter(pending, players[me].lastSeq)
               /\ dropped' = Len(pending) - Len(pending')
               /\ localState' = <<Reapply(players[me], pending')>>
    /\ UNCHANGED <<predSeq, inflight, srvEntity, sentLog, recvLog, reads,
                   predictRest>>

PredictInit == Constructed(0) /\ NoRingCalls

PredictNext ==
    \/ StartServer(MaxPlayersCfg, WorldHalfCfg)
    \/ \E frameInput \in FrameInputs : Sample(frameInput)
    \/ ServerProcess
    \/ SendSnapshot
    \/ ApplySnapshot

\* one session: client loop, server, snapshots
SpecPredict == PredictInit /\ [][PredictNext]_vars

\* -------------------------------------------------- start, run, stop
\* ticks examined in one run, and calls made over all runs
LifeTicks == 3
MaxLifePushes == 2
MaxLifeReads == 3

\* start, stop, pushInput and getSnapshot are synchronous calls made by the
\* one JavaScript thread (addon.cc): it is inside none of them
JsIdle == rpc = "idle" /\ stopc = "idle"

\* GameServer::stop, lines 104-106: the flag is cleared, join() begins
StopRequest ==
    /\ JsIdle
    /\ running_
    /\ running_' = FALSE
    /\ stopc' = "joining"
    /\ UNCHANGED <<ringVars, ringCallVars, tickCount_, config_, players_,
                   spiders_, snapshot_, snapshotMutex_, spc, touched, data,
                   rpc, rout, horizon, pushes, reads, tickLog, boundaryVars,
                   wireVars, stepVars, predictVars, seenTick, lastShot,
                   runs>>

\* the loop test the tick thread leaves by
LoopExitMut(pc, running) == pc \in {"loop", "drain"} /\ ~running
LoopExit(pc, running) == pc = "loop" /\ ~running

\* tickLoop, line 123: while (running_.load()) is false, the thread ends
TickExit ==
    /\ LoopExit(spc, running_)
    /\ spc' = "exited"
    /\ touched' = {}
    /\ UNCHANGED <<ringVars, ringCallVars, running_, tickCount_, config_,
                   players_, spiders_, snapshot_, snapshotMutex_, data, rpc,
                   rout, horizon, pushes, reads, tickLog, extVars>>

\* GameServer::stop, lines 106-107: join() has returned, stop() returns
StopReturn ==
    /\ stopc = "joining"
    /\ spc = "exited"
    /\ stopc' = "idle"
    /\ UNCHANGED <<ringVars, ringCallVars, running_, tickCount_, config_,
                   players_, spiders_, snapshot_, snapshotMutex_, spc, touched,
                   data, rpc, rout, horizon, pushes, reads, tickLog,
                   boundaryVars, wireVars, stepVars, predictVars, seenTick,
                   lastShot, runs>>

LifeCommands ==
    {Packet(id, 1, 0, 1, 0, 0, FALSE, 0, FALSE) : id \in HumanIds}

LifeStart == JsIdle /\ StartServer(MaxPlayersCfg, WorldHalfCfg)

LifePush == JsIdle /\ \E pkt \in LifeCommands : PushInputWithin(pkt, MaxLifePushes)

LifeRead == stopc = "idle" /\ ReaderLockWithin(MaxLifeReads)

LifeNext ==
    \/ LifeStart
    \/ StopRequest
    \/ StopReturn
    \/ LifePush
    \/ LifeRead
    \/ ReaderCopyHead
    \/ ReaderCopyBody
    \/ ReaderUnlock
    \/ SimPop
    \/ SimFinish
    \/ SimPublish
    \/ TickExit

LifeInit == Constructed(LifeTicks) /\ NoRingCalls

\* the server started, run, stopped and started again by one calling thread
SpecLifecycle == LifeInit /\ [][LifeNext]_vars

\* -------------------------------------------- stop under a busy caller
StopTicks == 2

\* pushInput with no limit on the number of calls, between other calls
StopPush == JsIdle /\ \E pkt \in FloodCommands : FloodPush(pkt)

\* the tick thread: its ticks and its end
TickThreadRun == TickThread \/ TickExit

StopNext ==
    \/ LifeStart
    \/ StopRequest
    \/ StopReturn
    \/ StopPush
    \/ TickThreadRun

StopInit == Constructed(StopTicks) /\ NoRingCalls

\* the tick thread always gets to run and join() returns once it has ended;
\* the caller pushes, starts and stops whenever it likes
SpecStop ==
    /\ StopInit
    /\ [][StopNext]_vars
    /\ WF_vars(TickThreadRun)
    /\ WF_vars(StopReturn)

\* --------------------------------------------- entities over a long run
\* two sessions fire at each other during the first cooldown periods and
\* then fall silent until the idle timeout has passed
EntHorizon == 604
MaxEntPushes == 4

\* the ticks in which commands arrive: the first three cooldown periods
EntTicks == {k * kShotgun.cooldownTicks : k \in 0 .. 2}

EntPush ==
    /\ JsIdle
    /\ tickCount_ \in EntTicks
    /\ \E pkt \in CombatCommands : PushInputWithin(pkt, MaxEntPushes)

EntNext ==
    \/ LifeStart
    \/ EntPush
    \/ SimPop
    \/ SimFinish
    \/ SimPublish

EntInit == Constructed(EntHorizon) /\ NoRingCalls

SpecEntities == EntInit /\ [][EntNext]_vars

\* ------------------------------------------------ a bot hunts sessions
\* a bot and one session; the session's commands arrive when it is created
\* and right after the bot's second volley; the run covers a third volley
HuntHorizon == 50
MaxHuntPushes == 2

HuntTicks == {0, 2 * kShotgun.cooldownTicks + 1}

HuntStart ==
    Start([maxPlayers |-> MaxPlayersCfg, worldHalfExtent |-> WorldHalfCfg,
           botCount |-> MaxBots])

HuntPush ==
    /\ tickCount_ \in HuntTicks
    /\ \E pkt \in CombatCommands : PushInputWithin(pkt, MaxHuntPushes)

\* what the geometry decides for the bots of the scenario: they face along
\* yaw 0, are in range or not, and a volley misses a target or hits it with
\* every pellet at no distance
HuntBotInputs ==
    [0 .. (MaxBots - 1) ->
        [yaw : {0}, fire : BOOLEAN,
         dmg : [1 .. MaxPlayersCfg -> {0, kShotgun.maxDamage}]]]

HuntFinish == SimFinishWith(HuntBotInputs)

HuntNext ==
    \/ HuntStart
    \/ HuntPush
    \/ SimPop
    \/ HuntFinish
    \/ SimPublish

HuntInit == Constructed(HuntHorizon) /\ NoRingCalls

SpecHunt == HuntInit /\ [][HuntNext]_vars

\* ------------------------------------------- the startup configuration
ConfigTicks == 2

\* the objects the caller hands to startServer: they ask for bots
SuppliedConfigs ==
    [maxPlayers : (MaxPlayersCfg + MaxBots - 1) .. (MaxPlayersCfg + MaxBots),
     worldHalfExtent : {WorldHalfCfg}, botCount : {MaxBots}]

\* StartServer (addon.cc, lines 11-20) given an object with the three fields
StartServerWith(obj) == StartServer(obj.maxPlayers, obj.worldHalfExtent)

ConfigStart == \E obj \in SuppliedConfigs : StartServerWith(obj)

ConfigNext ==
    \/ ConfigStart
    \/ \E pkt \in LifeCommands : PushInput(pkt)
    \/ SimPop
    \/ SimFinish
    \/ SimPublish

ConfigInit == Constructed(ConfigTicks) /\ NoRingCalls

\* a server started through the addon with a configuration that asks for bots
SpecConfig == ConfigInit /\ [][ConfigNext]_vars

\* ----------------------------------------------- resolveWalls on its own
\* entity positions on a grid over the map, moving diagonally
WallReach == 21
GridStep == 250

GridCoords == {k * GridStep : k \in -((WallReach * Milli) \div GridStep)
                                     .. ((WallReach * Milli) \div GridStep)}

\* entities at any grid position, on the ground, with both velocity
\* components set
WallStates ==
    {[KinZero EXCEPT !.x = x, !.z = z, !.y = GROUND_Y, !.vx = 3 * Milli,
                     !.vz = -2 * Milli] : x \in GridCoords, z \in GridCoords}

\* resolveWalls of the server (walls_ as setupMap builds it for the
\* configured half extent) and of the client applied to one state
WallResolve ==
    /\ running_
    /\ ksteps = 0
    /\ ksteps' = 1
    /\ \E p \in WallStates :
          /\ kstate' = p
          /\ snext' = ResolveWalls(p, ServerWalls(config_.worldHalfExtent),
                                   playerRadius_)
          /\ cnext' = ResolveWalls(p, WALLS, PLAYER_RADIUS)
    /\ UNCHANGED <<ringVars, ringCallVars, running_, tickCount_, config_,
                   players_, spiders_, snapshot_, snapshotMutex_, spc, touched,
                   data, rpc, rout, horizon, pushes, reads, tickLog,
                   boundaryVars, wireVars, kcmd, predictVars, lifeVars>>

WallInit == Constructed(0) /\ NoRingCalls

WallNext ==
    \/ StartServer(MaxPlayersCfg, WorldHalfCfg)
    \/ WallResolve

SpecWalls == WallInit /\ [][WallNext]_vars

\* ---------------------------------------------- respawnPlayer placement
\* an entity at (x, z) as respawnPlayer leaves it: y = 1, at rest
Placed(x, z) == [KinZero EXCEPT !.x = x, !.z = z, !.y = 1000]

\* overlapsWall for some wall of walls_
Blocked(p, cfg) ==
    \E i \in 1 .. Len(ServerWalls(cfg.worldHalfExtent)) :
        OverlapsWall(p, ServerWalls(cfg.worldHalfExtent)[i], playerRadius_)

\* lines 318-327: what one anchor attempt may try
AnchorTries ==
    {Placed(kSpawnPoints[k][1] * Milli + jx, kSpawnPoints[k][2] * Milli + jz) :
        k \in 1 .. Len(kSpawnPoints), jx \in Jitters, jz \in Jitters}

\* lines 329-340: what one scatter attempt may try, on the grid
ScatterTries(cfg) ==
    {Placed(x, z) :
        x \in {c \in GridCoords : c >= -(cfg.worldHalfExtent * Milli) + 1500
                                  /\ c <= cfg.worldHalfExtent * Milli - 1500},
        z \in {c \in GridCoords : c >= -(cfg.worldHalfExtent * Milli) + 1500
                                  /\ c <= cfg.worldHalfExtent * Milli - 1500}}

AnchorAttempts == 12
ScatterAttempts == 20

\* respawnPlayer, lines 317-346: the attempts made and the placement kept.
\* attempt n succeeds after n - 1 blocked ones; after AnchorAttempts +
\* ScatterAttempts blocked ones the origin is taken untested
RespawnOutcomes(cfg) ==
    LET anchorOk == {p \in AnchorTries : ~Blocked(p, cfg)}
        anchorBad == {p \in AnchorTries : Blocked(p, cfg)}
        scatterOk == {p \in ScatterTries(cfg) : ~Blocked(p, cfg)}
        scatterBad == {p \in ScatterTries(cfg) : Blocked(p, cfg)}
    IN {[attempts |-> n, p |-> p] :
           n \in {m \in 1 .. AnchorAttempts : m = 1 \/ anchorBad # {}},
           p \in anchorOk}
       \cup
       (IF AnchorAttempts = 0 \/ anchorBad # {}
        THEN {[attempts |-> AnchorAttempts + n, p |-> p] :
                 n \in {m \in 1 .. ScatterAttempts : m = 1 \/ scatterBad # {}},
                 p \in scatterOk}
        ELSE {})
       \cup
       (IF anchorBad # {} /\ scatterBad # {}
        THEN {[attempts |-> AnchorAttempts + ScatterAttempts, p |-> Placed(0, 0)]}
        ELSE {})

\* respawnPlayer called for an entity of the running server
RespawnCall ==
    /\ running_
    /\ ksteps = 0
    /\ \E o \in RespawnOutcomes(config_) :
          /\ ksteps' = o.attempts
          /\ kstate' = o.p
    /\ UNCHANGED <<ringVars, ringCallVars, running_, tickCount_, config_,
                   players_, spiders_, snapshot_, snapshotMutex_, spc, touched,
                   data, rpc, rout, horizon, pushes, reads, tickLog,
                   boundaryVars, wireVars, kcmd, snext, cnext, predictVars,
                   lifeVars>>

SpawnInit == Constructed(0) /\ NoRingCalls

SpawnNext ==
    \/ StartServer(MaxPlayersCfg, WorldHalfCfg)
    \/ RespawnCall

SpecSpawn == SpawnInit /\ [][SpawnNext]_vars

\* ------------------------------------------------ a session goes silent
\* the session's commands arrive in the first MoveTicks ticks; the run
\* goes on past the idle timeout
MoveTicks == 2
IdleHorizon == 604

\* the commands of the session while it is heard
IdleCommands ==
    {Packet(1, 1, moveX, 1, yaw, 0, FALSE, 0, jump) :
        moveX \in {0, 1}, yaw \in {0, 2}, jump \in BOOLEAN}

\* the kinematic state respawnPlayer may leave, by anchor placement
Respawned(cfg) == SpawnStates(cfg)

\* stepSimulation for a tick in which one command of the session is in the
\* ring: processInput (the entity is created by the first), the per-entity
\* pass, the tick increment
SessionTick(cmd) ==
    /\ running_
    /\ tickCount_ < MoveTicks
    /\ \E spawn \in IF players_ = <<>> THEN Respawned(config_) ELSE {kstate} :
          LET w == ProcessInput(World(players_, {}, TickLogZero), cmd,
                                tickCount_, config_, NoDamage(1))
          IN /\ players_' = PassAll(w.players, w.touched, tickCount_)
             /\ kstate' = ServerStep(spawn, cmd, config_)
    /\ snext' = kstate'
    /\ kcmd' = cmd
    /\ ksteps' = 0
    /\ tickCount_' = NextTick(tickCount_)
    /\ UNCHANGED <<ringVars, ringCallVars, running_, config_, spiders_,
                   snapshot_, snapshotMutex_, spc, touched, data, rpc, rout,
                   horizon, pushes, reads, tickLog, boundaryVars, wireVars,
                   cnext, predictVars, lifeVars>>

\* the kinematic side of PassOne for an entity nobody touched: a respawn
\* places it, the synthetic command integrates it
PassKinematics(p, k, tick, cfg) ==
    IF ~p.active
    THEN IF tick >= p.respawnTick THEN Respawned(cfg) ELSE {k}
    ELSE {ServerStep(k, [ZeroPacket EXCEPT !.yaw = k.yaw, !.pitch = k.pitch],
                     cfg)}

\* stepSimulation for a tick in which the ring is empty
SilentTick ==
    /\ running_
    /\ players_ # <<>>
    /\ tickCount_ < horizon
    /\ players_' = PassAll(players_, {}, tickCount_)
    /\ kstate' \in PassKinematics(players_[1], kstate, tickCount_, config_)
    /\ snext' = kstate
    /\ ksteps' = ksteps + 1
    /\ tickCount_' = NextTick(tickCount_)
    /\ UNCHANGED <<ringVars, ringCallVars, running_, config_, spiders_,
                   snapshot_, snapshotMutex_, spc, touched, data, rpc, rout,
                   horizon, pushes, reads, tickLog, boundaryVars, wireVars,
                   kcmd, cnext, predictVars, lifeVars>>

IdleInit == Constructed(IdleHorizon) /\ NoRingCalls

IdleNext ==
    \/ StartServer(MaxPlayersCfg, WorldHalfCfg)
    \/ \E cmd \in IdleCommands : SessionTick(cmd)
    \/ SilentTick

SpecIdle == IdleInit /\ [][IdleNext]_vars

\* ------------------------------------------------ death and the way back
\* a bot and the sessions fire at each other in the second and third
\* cooldown period; the run goes on past the respawn of those killed then
ReviveHorizon == 214
MaxRevivePushes == 4

\* the ticks of the volleys, and the tick 180 after the last of them
VolleyTicks == {k * kShotgun.cooldownTicks : k \in 0 .. 2}
ReviveTicks ==
    VolleyTicks \cup {2 * kShotgun.cooldownTicks + RespawnTicks}

\* the transport delivers between two ticks
RevivePush ==
    /\ tickCount_ \in ReviveTicks
    /\ spc = "loop"
    /\ \E pkt \in CombatCommands : PushInputWithin(pkt, MaxRevivePushes)

\* what the geometry decides for the bots of the scenario: in the ticks of
\* the volleys as in HuntBotInputs, in the other ticks out of range
ReviveBotInputs ==
    IF tickCount_ \in VolleyTicks THEN HuntBotInputs
    ELSE [0 .. (MaxBots - 1) ->
            [yaw : {0}, fire : {FALSE}, dmg : {NoDamage(MaxPlayersCfg)}]]

\* in the ticks of the volleys the tick thread is scheduled after a command
\* has arrived
ReviveFinish ==
    /\ tickCount_ \in VolleyTicks => pushes > 0
    /\ SimFinishWith(ReviveBotInputs)

ReviveNext ==
    \/ HuntStart
    \/ RevivePush
    \/ SimPop
    \/ ReviveFinish
    \/ SimPublish

ReviveInit == Constructed(ReviveHorizon) /\ NoRingCalls

SpecRevive == ReviveInit /\ [][ReviveNext]_vars

\* ------------------------------------- push-out axis, float and double
\* The server computes in binary32 (float), the client in binary64 (the
\* numbers of JavaScript). A float is held here as an integer number of
\* units of 2^-25; a double as [hi, lo], standing for hi * 2^-25 + lo * 2^-54
\* with 0 <= lo < 2^29. Every operation rounds to nearest, ties to even, as
\* both machines do.
FloatOne == 2 ^ 25
LoLimit == 2 ^ 29

Abs(v) == IF v < 0 THEN -v ELSE v

\* round the magnitude m to a multiple of p, ties to the even multiple
RoundEven(m, p) ==
    LET q == m \div p
        rem == m % p
    IN IF 2 * rem > p \/ (2 * rem = p /\ q % 2 = 1) THEN (q + 1) * p ELSE q * p

\* spacing of the floats at magnitude m (24 significant bits), in units
FloatUlp(m) ==
    IF m < 2 ^ 24 THEN 1 ELSE IF m < 2 ^ 25 THEN 2 ELSE IF m < 2 ^ 26 THEN 4
    ELSE IF m < 2 ^ 27 THEN 8 ELSE IF m < 2 ^ 28 THEN 16
    ELSE IF m < 2 ^ 29 THEN 32 ELSE IF m < 2 ^ 30 THEN 64 ELSE 128

\* the float nearest to v
RoundFloat(v) ==
    IF v < 0 THEN -RoundEven(-v, FloatUlp(-v)) ELSE RoundEven(v, FloatUlp(v))

\* a + b and a - b on floats
FAdd(a, b) == RoundFloat(a + b)
FSub(a, b) == RoundFloat(a - b)

\* doubles: exact sum, negation, order
Dbl(hi, lo) == [hi |-> hi, lo |-> lo]
DNeg(d) == IF d.lo = 0 THEN Dbl(-d.hi, 0) ELSE Dbl(-d.hi - 1, LoLimit - d.lo)
DSum(a, b) ==
    IF a.lo + b.lo >= LoLimit THEN Dbl(a.hi + b.hi + 1, a.lo + b.lo - LoLimit)
    ELSE Dbl(a.hi + b.hi, a.lo + b.lo)
DLess(a, b) == a.hi < b.hi \/ (a.hi = b.hi /\ a.lo < b.lo)

\* spacing of the doubles at magnitude hi * 2^-25 (53 significant bits), in
\* units of 2^-54
DoubleUlp(hi) ==
    IF hi < 2 ^ 24 THEN 1 ELSE IF hi < 2 ^ 25 THEN 2 ELSE IF hi < 2 ^ 26 THEN 4
    ELSE IF hi < 2 ^ 27 THEN 8 ELSE IF hi < 2 ^ 28 THEN 16
    ELSE IF hi < 2 ^ 29 THEN 32 ELSE IF hi < 2 ^ 30 THEN 64 ELSE 128

\* the double nearest to a non-negative d
RoundDoubleMag(d) ==
    LET lo == RoundEven(d.lo, DoubleUlp(d.hi))
    IN IF lo >= LoLimit THEN Dbl(d.hi + 1, lo - LoLimit) ELSE Dbl(d.hi, lo)

\* the double nearest to d
RoundDouble(d) ==
    IF d.hi < 0 THEN DNeg(RoundDoubleMag(DNeg(d))) ELSE RoundDoubleMag(d)

\* a + b and a - b on doubles
DAdd(a, b) == RoundDouble(DSum(a, b))
DSub(a, b) == RoundDouble(DSum(a, DNeg(b)))

\* playerRadius_ = 0.35f and PLAYER_RADIUS = 0.35
RadiusF == 11744051
RadiusD == Dbl(11744051, 107374182)

\* a float as the double of the same value
Widen(v) == Dbl(v, 0)

\* a box with whole-number faces, as floats
FBox(minX, maxX, minZ, maxZ) ==
    [minX |-> minX * FloatOne, maxX |-> maxX * FloatOne,
     minZ |-> minZ * FloatOne, maxZ |-> maxZ * FloatOne]

\* the same box as doubles
DBox(b) ==
    [minX |-> Widen(b.minX), maxX |-> Widen(b.maxX),
     minZ |-> Widen(b.minZ), maxZ |-> Widen(b.maxZ)]

\* setupMap and WALLS: the walls of the two rooms, the same in both programs
RoomWalls ==
    <<FBox(-18, 18, 18, 20), FBox(-18, -6, 10, 12), FBox(6, 18, 10, 12),
      FBox(-18, -16, 10, 20), FBox(16, 18, 10, 20),
      FBox(-18, 18, -20, -18), FBox(-18, -6, -12, -10), FBox(6, 18, -12, -10),
      FBox(-18, -16, -20, -10), FBox(16, 18, -20, -10)>>

\* overlapsWall in float
ServerOverlaps(x, z, w) ==
    /\ FAdd(x, RadiusF) > w.minX /\ FSub(x, RadiusF) < w.maxX
    /\ FAdd(z, RadiusF) > w.minZ /\ FSub(z, RadiusF) < w.maxZ

\* the overlap test of Predictor.resolveWalls
ClientOverlaps(x, z, w) ==
    /\ DLess(w.minX, DAdd(x, RadiusD)) /\ DLess(DSub(x, RadiusD), w.maxX)
    /\ DLess(w.minZ, DAdd(z, RadiusD)) /\ DLess(DSub(z, RadiusD), w.maxZ)

\* resolveWalls / resolvePlatforms of the server: the four distances
ServerPens(x, z, w) ==
    <<FSub(w.maxX, FSub(x, RadiusF)), FSub(FAdd(x, RadiusF), w.minX),
      FSub(FAdd(z, RadiusF), w.minZ), FSub(w.maxZ, FSub(z, RadiusF))>>

\* resolveWalls / resolvePlatforms of the client: the four distances
ClientPens(x, z, w) ==
    <<DSub(w.maxX, DSub(x, RadiusD)), DSub(DAdd(x, RadiusD), w.minX),
      DSub(DAdd(z, RadiusD), w.minZ), DSub(w.maxZ, DSub(z, RadiusD))>>

\* the server's choice: minPen = penLeft; axis = 0; then three strict tests
ServerAxis(pens) ==
    LET a1 == IF pens[2] < pens[1] THEN 1 ELSE 0
        a2 == IF pens[3] < pens[a1 + 1] THEN 2 ELSE a1
    IN IF pens[4] < pens[a2 + 1] THEN 3 ELSE a2

\* the client's choice
ClientAxis(pens) ==
    LET a1 == IF DLess(pens[2], pens[1]) THEN 1 ELSE 0
        a2 == IF DLess(pens[3], pens[a1 + 1]) THEN 2 ELSE a1
    IN IF DLess(pens[4], pens[a2 + 1]) THEN 3 ELSE a2

\* the positions examined lie within AxisReach / 64 of a corner of a wall
AxisReach == 23
AxisOffsets == {k * (FloatOne \div 64) : k \in -AxisReach .. AxisReach}

\* both routines are given one position against one wall
AxisResolve ==
    /\ running_
    /\ ksteps = 0
    /\ ksteps' = 1
    /\ \E i \in 1 .. Len(RoomWalls) :
          LET w == RoomWalls[i]
          IN \E cx \in {w.minX, w.maxX}, cz \in {w.minZ, w.maxZ},
                dx \in AxisOffsets, dz \in AxisOffsets :
                LET x == cx + dx
                    z == cz + dz
                    hitS == ServerOverlaps(x, z, w)
                    hitC == ClientOverlaps(Widen(x), Widen(z), DBox(w))
                    pensS == ServerPens(x, z, w)
                    pensC == ClientPens(Widen(x), Widen(z), DBox(w))
                IN /\ kstate' = [wall |-> i, x |-> x, z |-> z]
                   /\ snext' = [hit |-> hitS, pens |-> pensS,
                                axis |-> ServerAxis(pensS)]
                   /\ cnext' = [hit |-> hitC, pens |-> pensC,
                                axis |-> ClientAxis(pensC)]
    /\ UNCHANGED <<ringVars, ringCallVars, running_, tickCount_, config_,
                   players_, spiders_, snapshot_, snapshotMutex_, spc, touched,
                   data, rpc, rout, horizon, pushes, reads, tickLog,
                   boundaryVars, wireVars, kcmd, predictVars, lifeVars>>

AxisInit == Constructed(0) /\ NoRingCalls

AxisNext ==
    \/ StartServer(MaxPlayersCfg, WorldHalfCfg)
    \/ AxisResolve

SpecAxis == AxisInit /\ [][AxisNext]_vars

\* ------------------------------------------------- onto a platform
\* an entity spawned at the centre anchor jumps, moves over the centre
\* platform and comes down on it
PlatformTicks == 58

\* the placement of respawnPlayer one unit behind the centre anchor;
\* respawnPlayer leaves grounded set (line 352)
PlatformSpawns(cfg) ==
    {[grounded |-> TRUE] @@ st : st \in
        {s \in SpawnStates(cfg) : s.x = 0 /\ s.z = Milli}}

\* the session walks forward (towards -z) for some ticks and then lets go;
\* it may ask for a jump in any tick
PlatformCommands(before) ==
    {Packet(1, 1, 0, moveZ, 0, 0, FALSE, 0, jump) :
        moveZ \in IF before.moveZ = 1 THEN {0, 1} ELSE {0}, jump \in BOOLEAN}

\* processInput creates the entity
PlatformSpawn ==
    /\ running_
    /\ ksteps = 0
    /\ kstate = KinZero
    /\ kstate' \in PlatformSpawns(config_)
    /\ kcmd' = Packet(1, 1, 0, 1, 0, 0, FALSE, 0, FALSE)
    /\ UNCHANGED <<ringVars, ringCallVars, running_, tickCount_, config_,
                   players_, spiders_, snapshot_, snapshotMutex_, spc, touched,
                   data, rpc, rout, horizon, pushes, reads, tickLog,
                   boundaryVars, wireVars, snext, cnext, ksteps,
                   predictVars, lifeVars>>

\* integratePlayer for one command; snext keeps the state the call began
\* with, cnext what resolvePlatforms was given and what it did
PlatformStep ==
    /\ kstate # KinZero
    /\ ksteps < PlatformTicks
    /\ ksteps' = ksteps + 1
    /\ \E cmd \in PlatformCommands(kcmd) :
          /\ kcmd' = cmd
          /\ snext' = kstate
          /\ cnext' = [given |-> BeforePlatforms(kstate, cmd, config_),
                       landed |-> Landed(BeforePlatforms(kstate, cmd, config_),
                                         ServerPlatforms, playerRadius_)]
          /\ kstate' = IntegratePlayerFull(kstate, cmd, config_)
    /\ UNCHANGED <<ringVars, ringCallVars, running_, tickCount_, config_,
                   players_, spiders_, snapshot_, snapshotMutex_, spc, touched,
                   data, rpc, rout, horizon, pushes, reads, tickLog,
                   boundaryVars, wireVars, predictVars, lifeVars>>

PlatformInit == Constructed(0) /\ NoRingCalls

PlatformNext ==
    \/ StartServer(MaxPlayersCfg, WorldHalfCfg)
    \/ PlatformSpawn
    \/ PlatformStep

SpecPlatform == PlatformInit /\ [][PlatformNext]_vars

\* ------------------------------------- integratePlayer on wire commands
\* the commands of a session as PushInput copies them from the payload:
\* moveX and moveZ are whatever floats the four bytes hold, a NaN included
KinCommands ==
    {Packet(1, 1, moveX, moveZ, yaw, 0, FALSE, 0, jump) :
        moveX \in {0, NotANumber}, moveZ \in {0, 1}, yaw \in {0, 3},
        jump \in BOOLEAN}

KinInit == Constructed(0) /\ NoRingCalls

KinNext ==
    \/ StartServer(MaxPlayersCfg, WorldHalfCfg)
    \/ KSpawn
    \/ \E cmd \in KinCommands : KStep(cmd)

SpecKin == KinInit /\ [][KinNext]_vars

\* ------------------------------------------------- stop and start again
MaxRestartPushes == 2
RestartTicks == 2

\* the commands pushed while `n` runs have been started: the sequence number
\* of a command is the number of the run it was pushed in or after
RestartCommands(n) ==
    {Packet(id, n, 0, 1, 0, 0, FALSE, 0, FALSE) : id \in HumanIds}

RestartStart == runs < MaxRuns /\ LifeStart

\* pushInput does not look at running_: it is accepted while the server is
\* stopped as well
RestartPush ==
    /\ JsIdle
    /\ \E pkt \in RestartCommands(runs) : PushInputWithin(pkt, MaxRestartPushes)

RestartNext ==
    \/ RestartStart
    \/ StopRequest
    \/ StopReturn
    \/ RestartPush
    \/ SimPop
    \/ SimFinish
    \/ SimPublish
    \/ TickExit

RestartInit == Constructed(RestartTicks) /\ NoRingCalls

\* the server started, stopped and started again, with commands arriving at
\* any time after the first start
SpecRestart == RestartInit /\ [][RestartNext]_vars

\* ---------------------------------------------------------- spiders
MaxSpiders == 1
MeleeTicks == 61

\* SpiderEntity's default member initialisers
SpiderAttackDamage == 8
SpiderAttackCooldownTicks == 30
SpiderSpawnHealth == 80

\* spawnSpider (position aside)
SpawnSpider(id) ==
    [id |-> id, health |-> SpiderSpawnHealth, active |-> TRUE,
     targetPlayerId |-> 0, lastAttackTick |-> 0,
     attackDamage |-> SpiderAttackDamage,
     attackCooldownTicks |-> SpiderAttackCooldownTicks]

\* findNearestPlayer: `pick` is the entity the distances single out (0: none
\* within aggroRange); only active entities with health > 0 are candidates
FindNearestPlayer(ps, pick) ==
    IF pick \in 1 .. Len(ps) /\ ps[pick].active /\ ps[pick].health > 0
    THEN pick ELSE 0

\* the attack branch of updateSpiders on its target
SpiderAttack(t, s, tick) ==
    LET h == t.health - s.attackDamage
    IN IF h <= 0
       THEN [t EXCEPT !.health = h, !.active = FALSE,
                      !.respawnTick = tick + RespawnTicks]
       ELSE [t EXCEPT !.health = h]

RECURSIVE UpdateSpidersFrom(_, _, _, _, _)
\* updateSpiders, spiders k .. ; geo[k] holds what the distances decide for
\* spider k: the nearest entity and whether it is within attackRange
UpdateSpidersFrom(ps, sps, k, tick, geo) ==
    IF k > Len(sps) THEN [players |-> ps, spiders |-> sps]
    ELSE IF ~sps[k].active THEN UpdateSpidersFrom(ps, sps, k + 1, tick, geo)
    ELSE
    LET s == sps[k]
        t == FindNearestPlayer(ps, geo[k].pick)
    IN IF t = 0
       THEN UpdateSpidersFrom(ps, [sps EXCEPT ![k].targetPlayerId = 0],
                              k + 1, tick, geo)
       ELSE
       LET s1 == [s EXCEPT !.targetPlayerId = ps[t].id]
       IN IF ~geo[k].near
          THEN UpdateSpidersFrom(ps, [sps EXCEPT ![k] = s1], k + 1, tick, geo)
          ELSE IF U32Sub(tick, s.lastAttackTick) >= s.attackCooldownTicks
          THEN UpdateSpidersFrom(
                  [ps EXCEPT ![t] = SpiderAttack(ps[t], s1, tick)],
                  [sps EXCEPT ![k] = [s1 EXCEPT !.lastAttackTick = tick]],
                  k + 1, tick, geo)
          ELSE UpdateSpidersFrom(ps, [sps EXCEPT ![k] = s1], k + 1, tick, geo)

UpdateSpiders(ps, sps, tick, geo) == UpdateSpidersFrom(ps, sps, 1, tick, geo)

\* the health hitscan damage can have left an entity with: untouched, or
\* after one full shot and one pellet at maximum range
MeleeHealths ==
    {FullHealth,
     FullHealth - kShotgun.maxDamage
        - RoundHalfUp(kShotgun.minDamage, kShotgun.pellets)}

\* a running server whose store holds one session's entity and whose spider
\* store holds spawned spiders
MeleeInit ==
    /\ ConstructedRest(MeleeTicks)
    /\ NoRingCalls
    /\ \E h \in MeleeHealths :
          players_ = <<[RespawnPlayer([PlayerZero EXCEPT !.id = 1], 0)
                          EXCEPT !.health = h]>>
    /\ spiders_ = [k \in 1 .. MaxSpiders |-> SpawnSpider(k)]

\* updateSpiders called for the current tick, the tick counter then advancing
UpdateSpidersCall ==
    /\ tickCount_ < horizon
    /\ \E geo \in [1 .. Len(spiders_) ->
                      [pick : 0 .. Len(players_), near : BOOLEAN]] :
          LET r == UpdateSpiders(players_, spiders_, tickCount_, geo)
          IN /\ players_' = r.players
             /\ spiders_' = r.spiders
    /\ tickCount_' = tickCount_ + 1
    /\ UNCHANGED <<ringVars, ringCallVars, running_, config_, snapshot_,
                   snapshotMutex_, spc, touched, data, rpc, rout, horizon, extVars,
                   pushes, reads, tickLog>>

\* updateSpiders applied tick after tick to a store with a spider in it
SpecMelee == MeleeInit /\ [][UpdateSpidersCall]_vars

\* --------------------------------------- GameServer: combat properties
\* C6: with the tick thread always scheduled, every tick that has begun is
\* followed by the tick counter advancing and that tick's snapshot being
\* published, whatever the transport pushes meanwhile.
C6_EveryTickCompletes ==
    \A t \in 0 .. (FloodTicks - 1) :
        (running_ /\ tickCount_ = t /\ spc \in {"loop", "drain"})
            ~> (tickCount_ = t + 1 /\ snapshot_ # <<>> /\ snapshot_[1].tick = t + 1)

SameStore == Len(players_') >= Len(players_)

\* C8: a step in which damage brings an entity's health from above 0 to 0
\* leaves it inactive with respawnTick = the tick of that step + 180; only
\* active entities with health above 0 lose health; an entity that is and
\* stays inactive keeps its health and its respawnTick; and an inactive
\* entity becomes active again only at or after its respawnTick, at full health.
C8_DeathSchedulesRespawnOnce ==
    [][ SameStore =>
          \A i \in 1 .. Len(players_) :
             LET p == players_[i]
                 q == players_'[i]
             IN /\ (p.health > 0 /\ q.health <= 0) =>
                      /\ q.health = 0
                      /\ ~q.active
                      /\ q.respawnTick = tickCount_ + RespawnTicks
                /\ q.health < p.health => (p.active /\ p.health > 0)
                /\ (~p.active /\ ~q.active) =>
                      /\ q.health = p.health
                      /\ q.respawnTick = p.respawnTick
                /\ (~p.active /\ q.active) =>
                      /\ tickCount_ >= p.respawnTick
                      /\ q.health = FullHealth
      ]_vars

\* C8 witness: an entity lies dead with its respawn scheduled 180 ticks after
\* the tick of its death, and another entity's shot was accepted after that
\* death, while it was inactive
C8_Witness ==
    \E i, j \in 1 .. Len(players_) :
        /\ ~players_[i].active
        /\ players_[i].health = 0
        /\ players_[i].respawnTick > RespawnTicks
        /\ players_[j].active
        /\ players_[j].lastFireTick > players_[i].respawnTick - RespawnTicks
        /\ tickCount_ > players_[j].lastFireTick

\* C9: in the scenario, a fire command processed in a tick t <= 20 is
\* accepted exactly when t is 0 or 16.
C9_FireAcceptedAtTicks0And16 ==
    (spc = "drain" /\ tickCount_ < CooldownTicks /\ tickLog[1].cmds >= 1) =>
        (tickLog[1].fired <=> tickCount_ \in {0, kShotgun.cooldownTicks})


\* ------------------------------------------------ GameServer: properties
StoreIndex(id) == FindPlayer(players_, id)

\* C4: while a getSnapshot call holds the mutex its copy is a prefix of the
\* published buffer, and the buffer it hands back is exactly the published
\* one: the newest swapped in (the previous one while the tick thread waits
\* to swap its next), or the empty buffer before the first swap; never a mix.
C4_ReaderSeesCompleteSnapshot ==
    /\ rpc = "copying" => rout = SubSeq(snapshot_, 1, Len(rout))
    /\ rpc = "copied" => rout = snapshot_
    /\ rout # <<>> => Len(rout) \in {1, rout[1].count + 1}
    /\ (rpc = "idle" /\ rout # <<>>) =>
           /\ Len(rout) = rout[1].count + 1
           /\ rout[1].tick <= tickCount_

\* C4 witness: the reader holds a complete earlier snapshot while the tick
\* thread waits at the lock with a newer buffer
C4_Witness ==
    /\ rpc = "copied"
    /\ spc = "publish"
    /\ Len(rout) > 1
    /\ data # rout
    /\ rout = snapshot_

\* C5: a tick ends (the counter advances) only from a ring observed empty;
\* the buffer built in that step is the encoding of the store after every
\* command popped in the tick was processed: each entity that had commands is
\* either absent because the store was full, or carries the last popped
\* sequence number and this tick as its last input tick, and was integrated
\* if it is active; and the buffer swapped in next is that buffer.
C5_DrainedBeforeSnapshot ==
    /\ [][ tickCount_' # tickCount_ =>
             /\ IsEmpty(tail_, head_)
             /\ data' = BuildSnapshot(players_', tickCount_')
             /\ \A id \in HumanIds : tickLog'[id].cmds > 0 =>
                   LET i == FindPlayer(players_', id)
                   IN IF i = 0 THEN Len(players_') >= config_.maxPlayers
                      ELSE /\ data'[i + 1].lastSeq = tickLog'[id].lastSeq
                           /\ players_'[i].lastInputTick = tickCount_
                           /\ players_'[i].active => tickLog'[id].integ >= 1
         ]_vars
    /\ [][ (spc = "publish" /\ spc' # "publish") =>
             /\ snapshot_' = data
             /\ snapshot_' = BuildSnapshot(players_, tickCount_)
         ]_vars

\* C5 witness: a tick that popped two commands of one entity has built its
\* buffer, which carries the second one's sequence number
C5_Witness ==
    /\ spc = "publish"
    /\ \E id \in HumanIds :
          /\ tickLog[id].cmds >= 2
          /\ StoreIndex(id) # 0
          /\ data[StoreIndex(id) + 1].lastSeq = tickLog[id].lastSeq
          /\ tickLog[id].lastSeq # 0

\* the entity was in the store and active when the tick began, or was created
\* in this tick, and is active now
ActiveThroughout(p) ==
    /\ p.active
    /\ tickLog[p.id].inStore => tickLog[p.id].wasActive

\* C10 as claimed: at the end of every tick each active entity has been
\* integrated exactly once in that tick.
C10_IntegratedOncePerTick ==
    spc = "publish" =>
        \A i \in 1 .. Len(players_) :
            players_[i].active => tickLog[players_[i].id].integ = 1

\* C10 amended: at the end of every tick each entity that was active
\* throughout it has been integrated once per command processed for it, or,
\* when none was, exactly once with the synthetic command (zero movement
\* intent, no jump, no fire, the entity's own yaw and pitch).
C10_IntegratedPerCommandOrIdle ==
    spc = "publish" =>
        \A i \in 1 .. Len(players_) :
            LET p == players_[i]
                lg == tickLog[p.id]
            IN ActiveThroughout(p) =>
                 /\ lg.integ = IF lg.cmds > 0 THEN lg.cmds ELSE 1
                 /\ lg.idle = IF lg.cmds > 0 THEN 0 ELSE 1
                 /\ lg.idle = 1 =>
                       /\ lg.idleInput.moveX = 0 /\ lg.idleInput.moveZ = 0
                       /\ ~lg.idleInput.jump /\ ~lg.idleInput.fire
                       /\ lg.idleInput.yaw = p.yaw
                       /\ lg.idleInput.pitch = p.pitch

\* C10 witness: in one tick one entity was integrated twice, for two
\* commands, and another once, with the synthetic command
C10_Witness ==
    /\ spc = "publish"
    /\ \E i, j \in 1 .. Len(players_) :
          /\ tickLog[players_[i].id].cmds = 2
          /\ tickLog[players_[i].id].integ = 2
          /\ tickLog[players_[j].id].cmds = 0
          /\ tickLog[players_[j].id].idle = 1
          /\ players_[j].yaw # 0

\* ------------------------------------------ GameServer: acknowledgement
MaxOf(a, b) == IF a >= b THEN a ELSE b

\* C11: after a command is processed for an entity its lastSeq is the highest
\* sequence number processed for it so far (the previous highest or the new
\* one, whichever is larger), and no entity's lastSeq is lower in a published
\* snapshot than in the one published before it.
C11_LastSeqIsHighestProcessed ==
    /\ [][ tail_' # tail_ =>
             LET pkt == buffer_[tail_]
                 before == FindPlayer(players_, pkt.playerId)
                 after == FindPlayer(players_', pkt.playerId)
             IN after # 0 =>
                   players_'[after].lastSeq =
                       MaxOf(IF before = 0 THEN 0 ELSE players_[before].lastSeq,
                             pkt.seq)
         ]_vars
    /\ [][ \A i \in 2 .. Len(snapshot_) :
             i <= Len(snapshot_') =>
                snapshot_'[i].lastSeq >= snapshot_[i].lastSeq
         ]_vars

\* C18: the store never holds more than maxPlayers entities, and the step
\* that processes a command for an id that is not in a full store leaves
\* the store as it was: no entity is created and none changes.
C18_FullStoreIgnoresNewId ==
    /\ [](Len(players_) <= config_.maxPlayers)
    /\ [][ (/\ tail_' # tail_
            /\ FindPlayer(players_, buffer_[tail_].playerId) = 0
            /\ Len(players_) >= config_.maxPlayers)
           => players_' = players_
         ]_vars

\* C18 witness: the store is full with a session's entity and a bot, and a
\* command of another session has been processed in this tick without its
\* entity being created
C18_Witness ==
    /\ Len(players_) = config_.maxPlayers
    /\ \E i, j \in 1 .. Len(players_) : players_[i].isBot /\ ~players_[j].isBot
    /\ spc = "drain"
    /\ \E id \in HumanIds :
          tickLog[id].cmds >= 1 /\ FindPlayer(players_, id) = 0

\* C16: a call of PushInput with a payload shorter than 23 bytes returns
\* false and leaves the ring as it was.
C16_ShortPayloadRejected ==
    [][ (pushes' # pushes /\ payload'.n < InputBytes)
          => (pushed' = FALSE /\ ringVars' = ringVars) ]_vars

\* C17: a call of PushInput with a 22-byte payload in the documented layout,
\* the ring not being full, returns true and enqueues the command the 22
\* bytes encode, with jump = false.
C17_DocumentedPayloadAccepted ==
    [][ (/\ pushes' # pushes
         /\ payload'.n = DocInputBytes
         /\ ~IsFull(RingNext(head_), tail_))
          => (/\ pushed' = TRUE
              /\ head_' = RingNext(head_)
              /\ \E id \in HumanIds :
                    buffer_'[head_] =
                        [ParseInput(id, payload'.bytes \o <<0>>, DocInputBytes)
                            EXCEPT !.jump = FALSE]) ]_vars

\* the fields a snapshot record carries
WireFields ==
    {"id", "x", "y", "z", "vx", "vy", "vz", "yaw", "pitch", "health", "active",
     "isBot", "weapon", "lastSeq"}

\* C19: what parseSnapshot returns for the bytes buildSnapshot produced has
\* the server's tick and, in store order, one record per entity whose
\* fields equal the entity's.
C19_SnapshotRoundTrip ==
    parsed.ok =>
        /\ parsed.tick = tickCount_
        /\ Len(parsed.players) = Len(players_)
        /\ \A i \in 1 .. Len(players_) :
              \A f \in WireFields : parsed.players[i][f] = players_[i][f]

\* C19 witness: a message with two entities, one of them inactive, a tick
\* and a lastSeq that need more than two bytes, has been parsed
C19_Witness ==
    /\ parsed.ok
    /\ Len(players_) = 2
    /\ tickCount_ > 65535
    /\ \E i, j \in 1 .. 2 :
          /\ ~players_[i].active /\ players_[j].active
          /\ players_[j].isBot /\ players_[i].lastSeq > 65535

\* C20: a snapshot is 6 + 45 * (number of entities in the store) bytes long,
\* its count field is the number of entities, and its i-th 45-byte record is
\* the i-th entity's, active or not, the active byte of an inactive one
\* being 0.
C20_FullStateBroadcast ==
    wire # <<>> =>
        /\ Len(wire) = HeaderBytes + RecordBytes * Len(players_)
        /\ GetUint16(wire, 4) = Len(players_)
        /\ \A i \in 1 .. Len(players_) :
              LET offset == HeaderBytes + RecordBytes * (i - 1)
              IN /\ GetUint32(wire, offset) = players_[i].id
                 /\ wire[offset + 39] = (IF players_[i].active THEN 1 ELSE 0)

\* C20 witness: the bytes were built for a store of two entities, the first
\* of them inactive
C20_Witness ==
    /\ wire # <<>>
    /\ Len(players_) = 2
    /\ ~players_[1].active
    /\ players_[2].active

\* C15: for the same entity state and the same command the server's
\* integratePlayer and the client's applyCommand give the same position,
\* velocity and orientation.
C15_SameStep ==
    ksteps > 0 =>
        \A f \in {"x", "y", "z", "vx", "vy", "vz", "yaw", "pitch"} :
            snext[f] = cnext[f]

\* C12: applySnapshot with a snapshot that holds the own record leaves in
\* pending exactly the commands that were pending with seq greater than the
\* record's lastSeq, in their order, and makes the local state the record
\* advanced by those commands, once each, in that order.
C12_ApplySnapshotReconciles ==
    [][ (snapMsg # <<>> /\ snapMsg' = <<>> /\ Find(snapMsg[1], playerId) # 0)
          => LET me == snapMsg[1][Find(snapMsg[1], playerId)]
                 kept == SelectSeq(pending, LAMBDA c : c.seq > me.lastSeq)
             IN /\ pending' = kept
                /\ localState' = <<Reapply(me, kept)>> ]_vars

\* C12 witness: a snapshot was applied that removed commands from pending
\* and left others to be applied again
C12_Witness ==
    /\ dropped > 0
    /\ pending # <<>>
    /\ snapMsg = <<>>
    /\ localState # <<>>

\* C13: every command sent whose seq is greater than the last acknowledged
\* seq is in the pending list.
C13_UnackedSentArePending ==
    \A i \in 1 .. Len(sentLog) :
        sentLog[i].seq > ack =>
            \E j \in 1 .. Len(pending) : pending[j] = sentLog[i]

\* the position and velocity of a state
PosVel(st) == <<st.x, st.y, st.z, st.vx, st.vy, st.vz>>

\* the server processed the very commands the client holds
SameCommands ==
    /\ Len(recvLog) = Len(sentLog)
    /\ \A i \in 1 .. Len(sentLog) :
          \A f \in {"seq", "moveX", "moveZ", "yaw", "pitch", "jump"} :
              recvLog[i][f] = sentLog[i][f]

\* C14: when the server has applied all N commands and the client has
\* applied a snapshot that acknowledges M < N of them, the remaining N - M
\* being the commands it predicted and replayed on the snapshot's state,
\* the client's position and velocity are the server's.
C14_ReconciliationConverges ==
    (/\ localState # <<>>
     /\ snapMsg = <<>>
     /\ SameCommands
     /\ ack < Len(sentLog)
     /\ pending = SelectSeq(sentLog, LAMBDA c : c.seq > ack))
        => PosVel(localState[1]) = PosVel(srvEntity[1])

\* ------------------------------------------ GameServer: run properties
\* C21: within one run every publication replaces a snapshot of tick t by
\* one of tick t + 1, and a getSnapshot call never returns a tick lower than
\* the one the previous call of the run returned.
C21_TicksAdvanceByOne ==
    [][/\ (spc = "publish" /\ spc' = "loop" /\ snapshot_ # <<>>)
            => snapshot_'[1].tick = snapshot_[1].tick + 1
       /\ (rpc = "copied" /\ rpc' = "idle" /\ rout # <<>>)
            => rout[1].tick >= seenTick]_vars

\* a call has returned tick 1 and the next one is about to return tick 2
C21_Witness ==
    /\ rpc = "copied"
    /\ seenTick = 1
    /\ rout # <<>> /\ rout[1].tick = 2
    /\ snapshot_ # <<>> /\ snapshot_[1].tick = 2

\* stop() has returned and start() has not been called since
Stopped == ~running_ /\ stopc = "idle" /\ spc = "exited"

\* C27: a stop() called on a running server returns, and only after the
\* tick thread has ended; the thread ends at the loop test, never inside a
\* tick; once stop() has returned, and until the next start(), the tick
\* counter, the published snapshot and the stores stay as they are.
C27_StopAtTickBoundary ==
    /\ (stopc = "joining") ~> Stopped
    /\ [][/\ (stopc = "joining" /\ stopc' = "idle") => spc = "exited"
          /\ spc \in {"drain", "publish"} => spc' \in {"drain", "publish", "loop"}
          /\ (Stopped /\ ~running_')
                => UNCHANGED <<tickCount_, snapshot_, players_, spiders_>>]_vars

\* stop() has returned after a run that published snapshots, with commands
\* left in the queue
C27_Witness ==
    /\ Stopped
    /\ snapshot_ # <<>> /\ snapshot_[1].tick = tickCount_
    /\ players_ # <<>>
    /\ head_ # tail_

\* ------------------------------------------ GameServer: entity store
\* the ids of the stored entities, in store order
StoreIds(ps) == [i \in 1 .. Len(ps) |-> ps[i].id]

\* the ids of the records of a snapshot buffer, in order
SnapshotIds(snap) == [i \in 1 .. (Len(snap) - 1) |-> snap[i + 1].id]

\* C22: in every step other than a start() the stored ids stay where they
\* are, and at most one is appended: the id of the command being processed,
\* which was not in the store (or a bot id); every snapshot built or
\* published lists exactly the stored ids, in store order; an entity that
\* goes inactive keeps its place.
C22_EntitiesNeverRemoved ==
    [][(running_ \/ ~running_') =>
          /\ Len(players_') >= Len(players_)
          /\ SubSeq(StoreIds(players_'), 1, Len(players_)) = StoreIds(players_)
          /\ Len(players_') > Len(players_) =>
                /\ \A i \in 1 .. Len(players_) :
                      \A j \in (Len(players_) + 1) .. Len(players_') :
                         players_[i].id # players_'[j].id
                /\ \/ /\ Len(players_') = Len(players_) + 1
                      /\ tail_' # tail_
                      /\ players_'[Len(players_')].id = buffer_[tail_].playerId
                   \/ /\ tail_' = tail_
                      /\ \A j \in (Len(players_) + 1) .. Len(players_') :
                            players_'[j].id \in BotIds(config_)
          /\ data' # <<>> => SnapshotIds(data') = StoreIds(players_')
          /\ (snapshot_' # snapshot_ /\ snapshot_' # <<>>) =>
                SnapshotIds(snapshot_') = StoreIds(players_)
      ]_vars

\* an entity that was hit and then deactivated by the idle timeout is in the
\* store and in the published snapshot, as is the one that shot at it
C22_Witness ==
    /\ Len(players_) = 2
    /\ players_[1].active /\ players_[1].lastFireTick > 0
    /\ ~players_[2].active
    /\ players_[2].health > 0 /\ players_[2].health < FullHealth
    /\ tickCount_ > IdleTimeoutTicks
    /\ snapshot_ # <<>>
    /\ snapshot_[1].tick = tickCount_
    /\ SnapshotIds(snapshot_) = StoreIds(players_)
    /\ snapshot_[2].active = 1 /\ snapshot_[3].active = 0

\* ------------------------------------------ GameServer: inactive entities
\* the entity is inactive and its respawn is not due in the current tick
Dormant(p) == ~p.active /\ tickCount_ < p.respawnTick

\* what the tick in progress has logged, the reset at its first step included
LogBefore == IF spc = "loop" THEN TickLogStart(players_) ELSE tickLog

\* C23: an entity that is inactive with its respawn not due is left as it is
\* by every step, except that a command of its own stores lastSeq and
\* lastInputTick: it is not integrated, loses no health, its fire is not
\* accepted and deals no damage. A bot fires only in a tick in which some
\* session entity is active with health above 0. Every buffer built carries a
\* record for every stored entity, with active = 0 for the inactive ones.
C23_InactiveExcluded ==
    [][running_ =>
          /\ \A i \in 1 .. Len(players_) :
                LET p == players_[i]
                    q == players_'[i]
                    own == tail_' # tail_ /\ buffer_[tail_].playerId = p.id
                IN Dormant(p) =>
                     /\ Len(players_') >= i
                     /\ q = IF own
                            THEN [p EXCEPT !.lastSeq = buffer_[tail_].seq,
                                           !.lastInputTick = tickCount_]
                            ELSE p
                     /\ (p.id \in EntityIds
                           /\ (tail_' # tail_ \/ tickCount_' # tickCount_)) =>
                           /\ tickLog'[p.id].integ = LogBefore[p.id].integ
                           /\ tickLog'[p.id].fired = LogBefore[p.id].fired
                     /\ own => \A j \in 1 .. Len(players_) :
                                  j # i => players_'[j] = players_[j]
          /\ (tickCount_' # tickCount_
                /\ \A i \in 1 .. Len(players_) :
                      players_[i].isBot \/ ~players_[i].active
                         \/ players_[i].health <= 0) =>
                /\ ~tickLog'[BotIdBase].fired
                /\ \A i \in 1 .. Len(players_) :
                      players_'[i].health >= players_[i].health
          /\ data' # <<>> =>
                /\ Len(data') = Len(players_') + 1
                /\ \A i \in 1 .. Len(players_') :
                      /\ data'[i + 1].id = players_'[i].id
                      /\ data'[i + 1].active = IF players_'[i].active THEN 1 ELSE 0
      ]_vars

\* the bot has killed the session's entity, a fire command of the dead
\* entity has just been processed, and the bot is alive
C23_Witness ==
    /\ spc = "drain"
    /\ \E i, b \in 1 .. Len(players_) :
          /\ ~players_[i].isBot
          /\ Dormant(players_[i])
          /\ players_[i].health = 0
          /\ tickLog[players_[i].id].cmds >= 1
          /\ players_[i].lastInputTick = tickCount_
          /\ players_[b].isBot /\ players_[b].active
          /\ players_[b].health = FullHealth

\* ------------------------------------------ GameServer: fire cooldown
\* C30: a command processed for an active entity has its shot accepted
\* exactly when it asks to fire and the current tick is at least 16 past the
\* entity's lastFireTick; lastFireTick becomes the current tick exactly then
\* and otherwise stays; an accepted shot comes at least 16 ticks after the
\* entity's previous accepted shot, and no entity has two in one tick.
C30_FireCooldown ==
    [][tail_' # tail_ =>
          LET pkt == buffer_[tail_]
              i == FindPlayer(players_, pkt.playerId)
              shotTaken == tickLog'[pkt.playerId].shots
                             > LogBefore[pkt.playerId].shots
          IN /\ (i # 0 /\ players_[i].active) =>
                  /\ shotTaken <=>
                        (pkt.fire /\ tickCount_ - players_[i].lastFireTick
                                        >= kShotgun.cooldownTicks)
                  /\ players_'[i].lastFireTick =
                        IF shotTaken THEN tickCount_
                        ELSE players_[i].lastFireTick
             /\ shotTaken =>
                  /\ lastShot[pkt.playerId] = -1
                        \/ tickCount_ - lastShot[pkt.playerId]
                              >= kShotgun.cooldownTicks
                  /\ tickLog'[pkt.playerId].shots = 1
      ]_vars

\* an entity's second shot has been shotTaken 16 ticks after its first,
\* hitting nobody, and a further fire command of the same tick was refused
C30_Witness ==
    /\ spc = "drain"
    /\ \E i \in 1 .. Len(players_) :
          /\ players_[i].lastFireTick = 2 * kShotgun.cooldownTicks
          /\ tickCount_ = 2 * kShotgun.cooldownTicks
          /\ tickLog[players_[i].id].cmds = 2
          /\ tickLog[players_[i].id].shots = 1
          /\ \A j \in 1 .. Len(players_) : players_[j].health = FullHealth

\* ------------------------------------------ startup configuration
\* C28: the running simulation's configuration is the object supplied to
\* startServer, and once the first tick is over the store holds an entity
\* for each of the ids 1000000 .. 1000000 + botCount - 1 of that object.
C28_SuppliedConfigUsed ==
    running_ =>
        /\ config_ \in SuppliedConfigs
        /\ tickCount_ >= 1 =>
              \A i \in 0 .. (MaxBots - 1) :
                 FindPlayer(players_, BotIdBase + i) # 0

\* ------------------------------------------ collision: properties
\* the walls of the list that the footprint of p overlaps
Overlapped(p, walls, r) ==
    {k \in 1 .. Len(walls) : OverlapsWall(p, walls[k], r)}

\* `after` is clear of the one wall `before` overlapped, and the velocity
\* along every axis it was moved on is zero
PushedClear(before, after, walls, r) ==
    \A k \in 1 .. Len(walls) :
        Overlapped(before, walls, r) = {k} =>
            /\ ~OverlapsWall(after, walls[k], r)
            /\ after.x # before.x \/ after.z # before.z
            /\ after.x # before.x => after.vx = 0
            /\ after.z # before.z => after.vz = 0

\* C24: an entity whose footprint overlaps exactly one wall is, after
\* resolveWalls, clear of that wall, with zero velocity along the axis it
\* was pushed on; for the server's walls and for the client's.
C24_PushedOutOfOneWall ==
    ksteps = 1 =>
        /\ PushedClear(kstate, snext, ServerWalls(config_.worldHalfExtent),
                       playerRadius_)
        /\ PushedClear(kstate, cnext, WALLS, PLAYER_RADIUS)

\* an entity inside one wall of the server only has been pushed out along x
\* and keeps its velocity along z
C24_Witness ==
    /\ ksteps = 1
    /\ Cardinality(Overlapped(kstate, ServerWalls(config_.worldHalfExtent),
                              playerRadius_)) = 1
    /\ snext.x # kstate.x /\ snext.z = kstate.z
    /\ snext.vx = 0 /\ snext.vz # 0
    /\ Overlapped(snext, ServerWalls(config_.worldHalfExtent), playerRadius_) = {}

\* the footprint of p overlaps the footprint of a platform while p is not
\* above its top plane (the band in which resolvePlatforms pushes out)
InPlatform(p) ==
    \E i \in 1 .. Len(ServerPlatforms) :
        /\ OverlapsWall(p, ServerPlatforms[i].box, playerRadius_)
        /\ p.y <= ServerPlatforms[i].height + 200

\* C25: respawnPlayer returns after at most 12 + 20 placement attempts and
\* leaves the entity where its footprint overlaps neither a wall nor a
\* platform.
C25_SpawnClearOfGeometry ==
    ksteps > 0 =>
        /\ ksteps <= AnchorAttempts + ScatterAttempts
        /\ ~Blocked(kstate, config_)
        /\ ~InPlatform(kstate)

\* ------------------------------------------ idle integration
\* the square of the horizontal speed
SpeedSq(k) == k.vx * k.vx + k.vz * k.vz

\* idle ticks after which friction has brought any speed the clamp allows
\* below one thousandth of a unit per tick
RestTicks == 60

\* the tops an entity can rest on
RestHeights == {GROUND_Y} \cup {ServerPlatforms[i].height :
                                  i \in 1 .. Len(ServerPlatforms)}

\* C26: over the ticks in which an entity receives no command its
\* horizontal speed never increases, and from the 60th such tick on it is
\* at rest: it stays where it is, on the ground plane or a platform top.
C26_IdleComesToRest ==
    ksteps > 0 =>
        /\ SpeedSq(kstate) <= SpeedSq(snext)
        /\ ksteps >= RestTicks =>
              /\ kstate.x = snext.x /\ kstate.z = snext.z
              /\ kstate.y = snext.y
              /\ kstate.y \in RestHeights

\* ------------------------------------------ GameServer: who writes what
\* the entity stores, the configuration the map is built from, the tick
\* counter and the published buffer
SimState == <<players_, spiders_, config_, tickCount_, snapshot_>>

\* a step of the tick thread
TickStep == tail_' # tail_ \/ tickCount_' # tickCount_ \/ spc # spc'

\* C29: the stores and the configuration the map is built from change only
\* in steps of the tick thread, or in a start() made while no tick thread
\* exists; a pushInput changes nothing but the ring; a getSnapshot changes
\* nothing but the mutex and its caller's buffer, which it fills from the
\* published buffer; stop() changes only the running flag.
C29_OnlyTickThreadWrites ==
    [][/\ <<players_, spiders_, config_>>' # <<players_, spiders_, config_>> =>
             \/ TickStep /\ spc \in {"loop", "drain"}
             \/ ~running_ /\ running_' /\ spc \in {"none", "exited"}
       /\ head_' # head_ => UNCHANGED <<SimState, tail_, data, touched, spc>>
       /\ (rpc' # rpc \/ rout' # rout) =>
             /\ UNCHANGED <<SimState, ringVars, data, touched, spc>>
             /\ Len(rout') <= Len(snapshot_)
             /\ \A i \in 1..Len(rout') : rout'[i] = snapshot_[i]
       /\ stopc' # stopc =>
             UNCHANGED <<SimState, ringVars, data, touched, spc>>
      ]_vars

\* a getSnapshot call has copied the published snapshot, which holds one
\* entity, while the tick thread, in the drain of the next tick, has created
\* a second entity from a command the caller queued before the call
C29_Witness ==
    /\ running_
    /\ rpc = "copied"
    /\ Len(rout) = 2
    /\ rout[1].tick = tickCount_
    /\ spc = "drain"
    /\ Len(players_) = 2

\* ------------------------------------------ GameServer: respawn delay
\* killed and waiting for its respawn
Dead(p) == ~p.active /\ p.health <= 0

C32_SameFirstSmallestAxis ==
    (ksteps = 1 /\ snext.hit /\ cnext.hit) =>
        /\ \A k \in 1 .. 4 : snext.pens[snext.axis + 1] <= snext.pens[k]
        /\ \A k \in 1 .. snext.axis : snext.pens[k] > snext.pens[snext.axis + 1]
        /\ \A k \in 1 .. 4 : ~DLess(cnext.pens[k], cnext.pens[cnext.axis + 1])
        /\ \A k \in 1 .. cnext.axis :
              DLess(cnext.pens[cnext.axis + 1], cnext.pens[k])
        /\ snext.axis = cnext.axis

\* ------------------------------------------ platforms: properties
\* on top of a platform: over its footprint, at the height of its top, at
\* rest vertically, grounded
StandsOnTop(p) ==
    \E i \in 1 .. Len(ServerPlatforms) :
        /\ OverlapsWall(p, ServerPlatforms[i].box, playerRadius_)
        /\ p.y = ServerPlatforms[i].height
        /\ p.vy = 0
        /\ p.grounded

\* C33: in a step in which the entity lands on a platform, or which it
\* begins standing on top of one, resolvePlatforms leaves x, z, vx and vz
\* as it was given them.
C33_FreeOnTop ==
    (ksteps > 0 /\ (cnext.landed \/ StandsOnTop(snext))) =>
        /\ kstate.x = cnext.given.x /\ kstate.z = cnext.given.z
        /\ kstate.vx = cnext.given.vx /\ kstate.vz = cnext.given.vz

\* C34: a command with jump set, integrated for a grounded entity, leaves
\* vy at the jump impulse less one tick of gravity and grounded cleared; for
\* an entity that is not grounded, the step is the same with or without
\* jump.
C34_JumpFollowsGrounded ==
    ksteps > 0 =>
        /\ (snext.grounded /\ kcmd.jump) =>
              /\ kstate.vy = 11 * Milli - Quot(26 * Milli, TicksPerSecond)
              /\ ~kstate.grounded
        /\ ~snext.grounded =>
              kstate = IntegratePlayerFull(snext, [kcmd EXCEPT !.jump = FALSE],
                                           config_)

\* ------------------------------------------ integratePlayer: bounds
\* C35: after every integratePlayer call the horizontal speed is at most 12,
\* x and z are within the world's half extent, y is at or above the ground
\* plane, yaw and pitch are the command's, and each horizontal velocity
\* component is the one of accelerate, then friction, then clamp, or was
\* zeroed by a collision.
C35_IntegrateBounds ==
    [][ ksteps' = ksteps + 1 =>
          LET q == kstate'
              c == kcmd'
              v == ClampSpeed(Friction(Accelerate(kstate, c, 50), 8), 12)
              half == config_.worldHalfExtent * Milli
          IN /\ q.vx # NotANumber /\ q.vz # NotANumber
             /\ q.vx * q.vx + q.vz * q.vz <= (12 * Milli) * (12 * Milli)
             /\ q.x \in -half .. half /\ q.z \in -half .. half
             /\ q.y >= 1000
             /\ q.yaw = c.yaw /\ q.pitch = c.pitch
             /\ q.vx \in {v.vx, 0} /\ q.vz \in {v.vz, 0}
      ]_vars

\* ------------------------------------------ GameServer: idle timeout
\* set inactive by the idle timeout, not by a death
TimedOut(p) == ~p.active /\ p.health > 0

\* C36: the step that ends a tick leaves inactive every active session
\* entity whose last input is more than 600 ticks old; an entity set
\* inactive by the timeout is left as it is by every step that processes no
\* command for it; a bot never becomes inactive while its health is above 0.
C36_IdleStaysInactive ==
    [][ SameStore =>
          \A i \in 1 .. Len(players_) :
             LET p == players_[i]
                 q == players_'[i]
             IN /\ (tickCount_' # tickCount_ /\ p.active /\ ~p.isBot
                      /\ tickCount_ - p.lastInputTick > IdleTimeoutTicks) =>
                      TimedOut(q)
                /\ (TimedOut(p)
                      /\ ~(tail_' # tail_ /\ buffer_[tail_].playerId = p.id)) =>
                      q = p
                /\ (p.isBot /\ p.active /\ ~q.active) => q.health <= 0
      ]_vars

\* ------------------------------ GameServer: a command for a dead entity
\* C37: a command processed for an entity that is dead with its respawn tick
\* not reached stores the command's sequence number in lastSeq and the current
\* tick in lastInputTick and changes nothing else: the entity's orientation,
\* health, active flag, respawnTick, lastFireTick and weapon stay, it is not
\* integrated (position and velocity stay), none of its fire is accepted, and
\* every other entity is left as it was.
C37_DeadCommandFrame ==
    [][(running_ /\ tail_' # tail_) =>
          \A i \in 1 .. Len(players_) :
             LET p == players_[i]
                 pkt == buffer_[tail_]
             IN (p.id = pkt.playerId /\ Dead(p) /\ tickCount_ < p.respawnTick) =>
                  /\ Len(players_') = Len(players_)
                  /\ \A f \in DOMAIN p \ {"lastSeq", "lastInputTick"} :
                        players_'[i][f] = p[f]
                  /\ players_'[i].lastSeq = pkt.seq
                  /\ players_'[i].lastInputTick = tickCount_
                  /\ \A j \in 1 .. Len(players_) :
                        j # i => players_'[j] = players_[j]
                  /\ p.id \in EntityIds =>
                        /\ tickLog'[p.id].integ = LogBefore[p.id].integ
                        /\ tickLog'[p.id].shots = LogBefore[p.id].shots
                        /\ tickLog'[p.id].cmds > LogBefore[p.id].cmds
    ]_vars

\* an entity killed by another session's shot in this tick has had a command
\* of its own, asking to fire, processed after its death: it is dead, not integrated in this tick, and carries the
\* command's sequence number and the tick
C37_Witness ==
    /\ spc = "drain"
    /\ \E i \in 1 .. Len(players_) :
          LET p == players_[i]
          IN /\ Dead(p) /\ p.health <= 0
             /\ p.respawnTick = tickCount_ + RespawnTicks
             /\ p.id \in EntityIds
             /\ tickLog[p.id].cmds >= 1
             /\ tickLog[p.id].integ = 0
             /\ p.lastInputTick = tickCount_
             /\ p.lastSeq = tickLog[p.id].lastSeq

\* ------------------------------------- GameServer: entities and walls
\* C38: after every step of the simulation no placed entity's footprint (its
\* position widened by the collision radius) overlaps a wall of the map,
\* whatever commands were applied: neither the placement of respawnPlayer nor
\* the wall push-outs, the platform push-outs and the world clamp of
\* integratePlayer leave it inside a wall.
C38_NeverInsideWall == kstate # KinZero => ~Blocked(kstate, config_)

\* ------------------------------------------- GameServer: a run's start
\* C40: a run started by start() begins with tick counter 0, an empty entity
\* store and an empty snapshot, and every command its ticks take from the
\* ring and apply was pushed after that start(): none was pushed during an
\* earlier run or while the server was stopped.
C40_RunAppliesOwnCommands ==
    [][/\ (~running_ /\ running_') =>
             /\ tickCount_' = 0
             /\ players_' = <<>>
             /\ snapshot_' = <<>>
       /\ tail_' # tail_ => buffer_[tail_].seq = runs
      ]_vars

\* ------------------------------------------------------ ring: properties
Quiescent ==
    /\ \A p \in producers : ppc[p] = "idle"
    /\ cpc = "idle"
    /\ IsEmpty(tail_, head_)

\* how often x occurs in the sequence s
Occurrences(s, x) == Cardinality({i \in 1 .. Len(s) : s[i] = x})

NoDataRace == ~craced /\ \A p \in producers : ~praced[p]

\* C1: with one producer and one consumer, the commands popped so far followed
\* by the commands the ring still holds are exactly the commands push accepted,
\* in the order they were pushed (so each accepted command is popped once, in
\* order, and nothing else is popped), and no plain buffer access ever races.
C1_SpscFifo ==
    /\ popped \o RingContents = accepted
    /\ NoDataRace
    /\ \A i \in 1 .. Len(popped) : popped[i] # TornPacket

\* C1 witness: more commands than the ring has slots went through it in order
C1_Witness ==
    /\ Cardinality(producers) = 1
    /\ Len(popped) > kSize
    /\ popped = accepted

\* C2: with two producer contexts, once every call has returned and the ring
\* is drained, each command for which push returned true was popped exactly
\* once and nothing else was popped.
C2_NoAcceptedCommandLost ==
    Quiescent =>
        /\ \A i \in 1 .. Len(accepted) : Occurrences(popped, accepted[i]) = 1
        /\ Len(popped) = Len(accepted)

\* every call in progress can take its next step whatever the other side does
NeverWaits ==
    /\ \A p \in producers : ppc[p] # "idle" => ENABLED Producer(p)
    /\ cpc # "idle" => ENABLED Consumer

PushReturnsFalse(p) == ppc[p] = "check" /\ ppc'[p] = "idle"
PopReturnsFalse == cpc = "check" /\ cpc' = "idle"

\* C3: a push that meets a full ring (kSize - 1 commands queued) returns false
\* and a push returns false only then; it leaves the queued commands and their
\* order unchanged and accepts nothing. A pop that meets an empty ring returns
\* false, and only then; it leaves the ring unchanged and returns no command.
\* No step of push or pop waits for the other side.
C3_FullPushEmptyPop ==
    /\ [][ /\ \A p \in producers :
                /\ PushReturnsFalse(p) =>
                      /\ pres'[p] = FALSE
                      /\ Len(RingContents) = kSize - 1
                      /\ RingContents' = RingContents
                      /\ buffer_' = buffer_
                      /\ accepted' = accepted
                /\ (ppc[p] = "check" /\ ppc'[p] # "check"
                      /\ Len(RingContents) = kSize - 1) => PushReturnsFalse(p)
           /\ PopReturnsFalse =>
                /\ cres' = FALSE
                /\ Len(RingContents) = 0
                /\ RingContents' = RingContents
                /\ buffer_' = buffer_
                /\ popped' = popped /\ cpkt' = cpkt
           /\ (cpc = "check" /\ cpc' # "check" /\ Len(RingContents) = 0)
                => PopReturnsFalse
         ]_vars
    /\ []NeverWaits

\* C3 witness: a push was refused on a full ring whose two queued commands are
\* still in place, and a pop has been refused on an empty ring
C3_Witness ==
    /\ \E p \in producers : pres[p] = FALSE /\ ppc[p] = "idle"
    /\ Len(RingContents) = kSize - 1
    /\ cres = FALSE

\* the commands accepted by push and not yet taken by pop
Queued == Len(accepted) - Len(popped)

\* C39: with one producer and the consumer, head and tail stay within
\* 0 .. kSize - 1; the ring holds as many commands as head is ahead of tail
\* (modulo kSize) and never more than kSize - 1; head equals tail exactly
\* when it holds none; and a push goes on to store its command exactly when,
\* at its reading of tail, fewer than kSize - 1 commands are held.
C39_RingBounded ==
    /\ [](/\ head_ \in 0 .. kSize - 1
          /\ tail_ \in 0 .. kSize - 1
          /\ Queued = (head_ - tail_ + kSize) % kSize
          /\ Queued <= kSize - 1
          /\ head_ = tail_ <=> Queued = 0)
    /\ [][\A p \in producers :
            (ppc[p] = "check" /\ ppc'[p] # "check") =>
               (ppc'[p] = "write" <=> Queued < kSize - 1)
        ]_vars

\* C39 witness: the ring holds kSize - 1 commands across the wrap-around of
\* the indices, and the push that met it was refused
C39_Witness ==
    /\ Queued = kSize - 1
    /\ head_ < tail_
    /\ Len(popped) >= 1
    /\ \E p \in producers : ppc[p] = "idle" /\ pres[p] = FALSE

=============================================================================
